---- MODULE Spec2Model ----
(***************************************************************************)
(* A state-machine model of the ShakeNBreak command-line interface         *)
(* (shakenbreak/cli.py): the commands `generate`, `generate_all` and       *)
(* `regenerate`, with the option/config-file merging of                    *)
(* CommandWithConfigFile.                                                  *)
(*                                                                         *)
(* Python values are encoded as follows.  An int-or-None value is an       *)
(* integer, with None the integer `None` (outside every range the model    *)
(* draws from); a str-or-None value is a string, with None the string      *)
(* NoneStr; a list is a sequence; a dict is a function whose domain is     *)
(* the set of its keys.  A list-or-None value is a sequence, None being    *)
(* the empty sequence: the program only ever tests such a value for        *)
(* truthiness (cli.py 282, 300, 655) or hands it to get_charge_states,     *)
(* which treats None and [] alike.                                         *)
(***************************************************************************)
EXTENDS Integers, Sequences, FiniteSets, TLC

VARIABLES
    cmd,            \* the command or operation being run
    pc,             \* position in the command's body
    cli_params,     \* ctx.params as click parsed them (defaults filled in)
    source,         \* ctx.get_parameter_source(param), per param
    config_file,    \* what loadfn(config) returns (a dict); EmptyDict when --config is not given
    params,         \* ctx.params as handed to the command body (after invoke)
    user_settings,  \* the local `user_settings`
    defect_settings,\* generate_all: the local `defect_settings` (the config's `defects` section)
    defect_object,  \* generate: the Defect returned by identify_defect
    defect_entries, \* the local `defect_entries`: one [name, charge] per DefectEntry
    warnings,       \* warnings.warn calls so far, in order: [msg, about]
    events,         \* calls to the collaborators (input, io, dumpfn), in order
    error,          \* the exception that ended the command, or NoneStr
    processed,      \* generate_all: one record per directory entry the loop has handled
    bulk_oxi_set,   \* generate_all: whether `_bulk_oxi_states` was assigned (cli.py 467-471)
    regen,          \* regenerate: the defect folders and the state of the consolidation
    fs,             \* parse, analyse, mag: what the command finds on disk
    calls,          \* parse, analyse: calls of io and analysis functions, in order, with arguments
    exit_status,    \* mag: the status handed to sys.exit, or None
    rattle          \* the rattle of one structure: the atom, round and attempt it is at

vars == <<cmd, pc, cli_params, source, config_file, params, user_settings,
          defect_settings, defect_object, defect_entries, warnings, events,
          error, processed, bulk_oxi_set, regen, fs, calls, exit_status, rattle>>

-----------------------------------------------------------------------------
(* Python values *)

None == 0 - 1000
NoneStr == "None"
EmptyDict == <<>>

(* Bounds of the model *)
MaxCharge == 1
MaxPadding == 1
MaxConfigKeys == 2
MaxOxi == 2
MaxIndex == 1
NumEntries == 2

ChargeVals == (0 - MaxCharge)..MaxCharge
PaddingVals == 0..MaxPadding
OxiStates == {0 - MaxOxi, 0, MaxOxi - 1}

-----------------------------------------------------------------------------
(* Helpers on dicts and lists *)

Restrict(d, keys) == [k \in keys |-> d[k]]

\* dict.pop(key, default) for its effect on the dict
Pop(d, keys) == [k \in (DOMAIN d) \ keys |-> d[k]]

\* dict.get(key, default)
Get(d, key, default) == IF key \in DOMAIN d THEN d[key] ELSE default

Elems(s) == {s[i] : i \in DOMAIN s}

Min2(a, b) == IF a <= b THEN a ELSE b
Max2(a, b) == IF a >= b THEN a ELSE b

\* list(range(a, b + 1))
RangeList(a, b) == [i \in 1..(b - a + 1) |-> a + i - 1]

RECURSIVE SortedList(_)
SortedList(S) ==
    IF S = {} THEN <<>>
    ELSE LET m == CHOOSE x \in S : \A y \in S : x <= y
         IN  <<m>> \o SortedList(S \ {m})

\* Python truthiness of a list / dict
Truthy(x) == DOMAIN x # {}

\* warnings.warn(msg), with the key, option or directory entry the message names
Warning(msg, about) == [msg |-> msg, about |-> about]

-----------------------------------------------------------------------------
(* click: the parsed command line *)

\* The options of `generate`, in the order of its signature
GenerateParams ==
    {"defect", "bulk", "charge", "min_charge", "max_charge", "padding",
     "defect_index", "defect_coords", "code", "name", "config", "input_file",
     "verbose"}

PaddingDefault == 1

GenerateDefaults ==
    [defect |-> NoneStr, bulk |-> NoneStr, charge |-> None, min_charge |-> None,
     max_charge |-> None, padding |-> PaddingDefault, defect_index |-> None,
     defect_coords |-> NoneStr, code |-> "VASP", name |-> NoneStr,
     config |-> NoneStr, input_file |-> NoneStr, verbose |-> NoneStr]

\* ctx.params: the value given on the command line, else the option's default
ParsedParams(argv, defaults) ==
    [p \in DOMAIN defaults |-> IF p \in DOMAIN argv THEN argv[p] ELSE defaults[p]]

\* ctx.get_parameter_source
ParameterSource(argv, defaults) ==
    [p \in DOMAIN defaults |-> IF p \in DOMAIN argv THEN "COMMANDLINE" ELSE "DEFAULT"]

\* invoke, were the test of the parameter source left out
invoke_ConfigWins(ps, src, config_data) ==
    IF ps["config"] # NoneStr
    THEN [p \in DOMAIN ps |->
            IF p \in DOMAIN config_data THEN config_data[p] ELSE ps[p]]
    ELSE ps

\* CommandWithConfigFile(...).invoke: a config-file key that names an option
\* left at its default sets that option
invoke(ps, src, config_data) ==
    IF ps["config"] # NoneStr
    THEN [p \in DOMAIN ps |->
            IF src[p] = "DEFAULT" /\ p \in DOMAIN config_data
            THEN config_data[p] ELSE ps[p]]
    ELSE ps

-----------------------------------------------------------------------------
(* generate: the settings handed to input.Distortions *)

GenerateFuncArgs ==
    GenerateParams \cup
    {"user_settings", "user_potcar_functional", "user_potcar_settings",
     "pseudopotentials"}

GenerateValidArgs ==
    {"defect", "bulk", "charge", "min_charge", "max_charge", "padding",
     "charges", "defect_index", "defect_coords", "code", "name", "config",
     "input_file", "verbose", "oxidation_states", "dict_number_electrons_user",
     "distortion_increment", "bond_distortions", "local_rattle",
     "distorted_elements", "stdev", "d_min", "n_iter", "active_atoms",
     "nbr_cutoff", "width", "max_attempts", "max_disp", "seed"}

PotcarKeys == {"POTCAR_FUNCTIONAL", "POTCAR", "pseudopotentials"}

\* user_settings = loadfn(config) if config is not None else {}
LoadSettings(config, data) == IF config # NoneStr THEN data ELSE EmptyDict

\* FilterSettings, were the second loop left out
FilterSettings_ArgsOnly(settings, func_args, valid_args) ==
    IF Truthy(settings) THEN Pop(settings, func_args) ELSE settings

\* the two loops that pop the function's own arguments, then the keys that
\* are not valid arguments
FilterSettings(settings, func_args, valid_args) ==
    IF Truthy(settings)
    THEN LET wo_args == Pop(settings, func_args)
         IN  Restrict(wo_args, {k \in DOMAIN wo_args : k \in valid_args})
    ELSE settings

-----------------------------------------------------------------------------
(* generate: the charge states *)

\* CliCharges, were the limits not put in order
CliCharges_Unordered(ps, user_charges) ==
    IF ps["charge"] # None
    THEN [raise |-> FALSE, user_charges |-> <<ps["charge"]>>]
    ELSE IF ps["max_charge"] # None \/ ps["min_charge"] # None
    THEN IF ps["max_charge"] = None \/ ps["min_charge"] = None
         THEN [raise |-> TRUE, user_charges |-> user_charges]
         ELSE [raise |-> FALSE,
               user_charges |-> RangeList(ps["min_charge"], ps["max_charge"])]
    ELSE [raise |-> FALSE, user_charges |-> user_charges]

\* CliCharges, were a lone limit taken as a range from or to 0
CliCharges_LoneLimit(ps, user_charges) ==
    IF ps["charge"] # None
    THEN [raise |-> FALSE, user_charges |-> <<ps["charge"]>>]
    ELSE IF ps["max_charge"] # None \/ ps["min_charge"] # None
    THEN LET lo == IF ps["min_charge"] = None THEN 0 ELSE ps["min_charge"]
             hi == IF ps["max_charge"] = None THEN 0 ELSE ps["max_charge"]
         IN  [raise |-> FALSE, user_charges |-> RangeList(Min2(lo, hi), Max2(lo, hi))]
    ELSE [raise |-> FALSE, user_charges |-> user_charges]

\* cli.py 264-278: --charge, else --min-charge with --max-charge.
\* `raise` is the ValueError of line 272.
CliCharges(ps, user_charges) ==
    IF ps["charge"] # None
    THEN [raise |-> FALSE, user_charges |-> <<ps["charge"]>>]
    ELSE IF ps["max_charge"] # None \/ ps["min_charge"] # None
    THEN IF ps["max_charge"] = None \/ ps["min_charge"] = None
         THEN [raise |-> TRUE, user_charges |-> user_charges]
         ELSE [raise |-> FALSE,
               user_charges |->
                   RangeList(Min2(ps["min_charge"], ps["max_charge"]),
                             Max2(ps["min_charge"], ps["max_charge"]))]
    ELSE [raise |-> FALSE, user_charges |-> user_charges]

\* ConfigCharges, were the config's charges to replace the command line's
ConfigCharges_ConfigWins(settings, user_charges) ==
    IF Truthy(settings) /\ "charges" \in DOMAIN settings
    THEN [user_settings |-> Pop(settings, {"charges"}),
          user_charges |-> settings["charges"], warned |-> FALSE]
    ELSE [user_settings |-> settings, user_charges |-> user_charges,
          warned |-> FALSE]

\* ConfigCharges, were the popped charges never set on the defect
ConfigCharges_Dropped(settings, user_charges) ==
    [user_settings |-> Pop(settings, {"charges"}), user_charges |-> user_charges,
     warned |-> FALSE]

\* cli.py 280-288: `charges` of the config file
ConfigCharges(settings, user_charges) ==
    IF Truthy(settings) /\ "charges" \in DOMAIN settings
    THEN IF Truthy(user_charges)
         THEN [user_settings |-> Pop(settings, {"charges"}),
               user_charges |-> user_charges, warned |-> TRUE]
         ELSE [user_settings |-> Pop(settings, {"charges"}),
               user_charges |-> settings["charges"], warned |-> FALSE]
    ELSE [user_settings |-> settings, user_charges |-> user_charges,
          warned |-> FALSE]

\* Defect.get_charge_states(padding) (the Charge State Enumerator): the
\* user's charges if any, else the range 0..oxidation state, sign-normalised
\* and widened by `padding` at both ends
get_charge_states(defect, padding) ==
    IF Truthy(defect.user_charges)
    THEN SortedList(Elems(defect.user_charges))
    ELSE RangeList(Min2(0, defect.oxi_state) - padding,
                   Max2(0, defect.oxi_state) + padding)

\* [input._get_defect_entry_from_defect(defect_object, c) for c in ...]
DefectEntries(name, charge_states) ==
    [i \in DOMAIN charge_states |-> [defect |-> name, charge |-> charge_states[i]]]

-----------------------------------------------------------------------------
(* generate, generate_all: the input-file writer chosen by --code *)

\* str.lower() on the names the model draws --code from
Lower(code) ==
    CASE code = "VASP" -> "vasp"
      [] code = "CP2K" -> "cp2k"
      [] code = "Espresso" -> "espresso"
      [] code = "Quantum_Espresso" -> "quantum_espresso"
      [] code = "CASTEP" -> "castep"
      [] code = "FHI-aims" -> "fhi-aims"
      [] code = "Vasp" -> "vasp"
      [] code = "Quantum-Espresso" -> "quantum-espresso"
      [] code = "QuantumEspresso" -> "quantumespresso"
      [] code = "Castep" -> "castep"
      [] code = "FHI_aims" -> "fhi_aims"
      [] code = "FHIaims" -> "fhiaims"
      [] code = "ABINIT" -> "abinit"
      [] OTHER -> code

\* the chain, were the code compared as it was given
Writer_CaseSensitive(code) ==
    CASE code = "vasp" -> "write_vasp_files"
      [] code = "cp2k" -> "write_cp2k_files"
      [] code \in {"espresso", "quantum_espresso", "quantum-espresso",
                   "quantumespresso"} -> "write_espresso_files"
      [] code = "castep" -> "write_castep_files"
      [] code \in {"fhi-aims", "fhi_aims", "fhiaims"} -> "write_fhi_aims_files"
      [] OTHER -> NoneStr

\* the if / elif chain of cli.py 311-374 and 662-725: the writer called, or
\* NoneStr when no branch matches
Writer(code) ==
    CASE Lower(code) = "vasp" -> "write_vasp_files"
      [] Lower(code) = "cp2k" -> "write_cp2k_files"
      [] Lower(code) \in {"espresso", "quantum_espresso", "quantum-espresso",
                          "quantumespresso"} -> "write_espresso_files"
      [] Lower(code) = "castep" -> "write_castep_files"
      [] Lower(code) \in {"fhi-aims", "fhi_aims", "fhiaims"} -> "write_fhi_aims_files"
      [] OTHER -> NoneStr

-----------------------------------------------------------------------------
(* generate: the inputs the model draws *)

Given(x, key) == IF x # None THEN {key} ELSE {}

\* the command lines: --defect and --bulk are required; --charge,
\* --min-charge, --max-charge, --padding and --config are given or not
GenerateArgvsOver(charges, paddings) ==
    { Restrict([defect |-> "defect.vasp", bulk |-> "bulk.vasp", charge |-> c,
                min_charge |-> lo, max_charge |-> hi, padding |-> p,
                config |-> "config.yaml"],
               {"defect", "bulk"} \cup Given(c, "charge") \cup Given(lo, "min_charge")
               \cup Given(hi, "max_charge") \cup Given(p, "padding")
               \cup (IF cf THEN {"config"} ELSE {})) :
        c \in charges \cup {None}, lo \in charges \cup {None},
        hi \in charges \cup {None}, p \in paddings \cup {None},
        cf \in BOOLEAN }

\* the config files: at most MaxConfigKeys of `keys`, which are options of
\* the command, `charges`, a Distortions keyword, a POTCAR setting and two
\* keys nothing recognises
GenerateChargeKeys == {"charge", "min_charge", "max_charge", "padding", "charges"}

GenerateConfigKeys == GenerateChargeKeys \cup {"stdev", "POTCAR", "foo", "bar"}

GenerateConfigsOver(keys) ==
    { Restrict(full, D) :
        full \in [charge : {1}, min_charge : {0 - 1}, max_charge : {0},
                  padding : {0}, charges : {<<>>, <<1, 0 - 1, 1>>},
                  stdev : {"0.25"}, POTCAR : {"potcar.yaml"}, foo : {"x"},
                  bar : {"y"}],
        D \in {K \in SUBSET keys : Cardinality(K) <= MaxConfigKeys} }

NoDefect == [user_charges |-> <<>>, oxi_state |-> None]

\* the state when click has parsed the command line of `command`
InitCommand(command, argvs, defaults, configs) ==
    /\ cmd = command
    /\ pc = "invoke"
    /\ \E argv \in argvs :
          /\ cli_params = ParsedParams(argv, defaults)
          /\ source = ParameterSource(argv, defaults)
          /\ IF "config" \in DOMAIN argv
             THEN config_file \in configs
             ELSE config_file = EmptyDict
    /\ params = cli_params
    /\ user_settings = EmptyDict
    /\ defect_settings = EmptyDict
    /\ defect_object = NoDefect
    /\ defect_entries = <<>>
    /\ warnings = <<>>
    /\ events = <<>>
    /\ error = NoneStr
    /\ processed = <<>>
    /\ bulk_oxi_set = FALSE
    /\ regen = <<>>
    /\ fs = <<>>
    /\ calls = <<>>
    /\ exit_status = None
    /\ rattle = <<>>

InitGenerate ==
    InitCommand("generate", GenerateArgvsOver(ChargeVals, PaddingVals),
                GenerateDefaults, GenerateConfigsOver(GenerateChargeKeys))

-----------------------------------------------------------------------------
(* CommandWithConfigFile.invoke, then the command body *)

Invoke ==
    /\ pc = "invoke"
    /\ params' = invoke(cli_params, source, config_file)
    /\ pc' = "settings"
    /\ UNCHANGED <<cmd, cli_params, source, config_file, user_settings, defect_settings,
                   defect_object, defect_entries, warnings, events, error,
                   processed, bulk_oxi_set, regen,
                   fs, calls, exit_status, rattle>>

(* generate *)

\* cli.py 194-240
GenerateSettings ==
    /\ cmd = "generate" /\ pc = "settings"
    /\ user_settings' =
          FilterSettings(Pop(LoadSettings(params["config"], config_file), PotcarKeys),
                         GenerateFuncArgs, GenerateValidArgs)
    /\ pc' = "identify"
    /\ UNCHANGED <<cmd, cli_params, source, config_file, params, defect_object,
                   defect_entries, warnings, events, error, processed,
                   bulk_oxi_set, regen,
                   fs, calls, exit_status, rattle, defect_settings>>

\* cli.py 242-262: Structure.from_file and input.identify_defect either
\* raise or return a Defect, whose oxidation state the estimator guessed
GenerateIdentify ==
    /\ cmd = "generate" /\ pc = "identify"
    /\ events' = Append(events, "identify_defect")
    /\ \E ok \in BOOLEAN, oxi \in OxiStates :
          IF ok
          THEN /\ defect_object' = [user_charges |-> <<>>, oxi_state |-> oxi]
               /\ pc' = "charges"
               /\ error' = error
          ELSE /\ defect_object' = defect_object
               /\ pc' = "failed"
               /\ error' = "identify_defect"
    /\ UNCHANGED <<cmd, cli_params, source, config_file, params, user_settings,
                   defect_entries, warnings, processed, bulk_oxi_set, regen,
                   fs, calls, exit_status, rattle, defect_settings>>

\* cli.py 264-288
GenerateCharges ==
    /\ cmd = "generate" /\ pc = "charges"
    /\ LET cli == CliCharges(params, defect_object.user_charges)
           cfg == ConfigCharges(user_settings, cli.user_charges)
       IN  IF cli.raise
           THEN /\ error' = "ValueError"
                /\ pc' = "failed"
                /\ UNCHANGED <<defect_object, user_settings, warnings>>
           ELSE /\ defect_object' = [defect_object EXCEPT !.user_charges = cfg.user_charges]
                /\ user_settings' = cfg.user_settings
                /\ warnings' = IF cfg.warned
                               THEN Append(warnings, Warning("charges also in config: ignored", "charges"))
                               ELSE warnings
                /\ pc' = "entries"
                /\ error' = error
    /\ UNCHANGED <<cmd, cli_params, source, config_file, params, defect_entries,
                   events, processed, bulk_oxi_set, regen,
                   fs, calls, exit_status, rattle, defect_settings>>

\* cli.py 290-304
GenerateEntries ==
    /\ cmd = "generate" /\ pc = "entries"
    /\ defect_entries' =
          DefectEntries("defect", get_charge_states(defect_object, params["padding"]))
    /\ pc' = "distortions"
    /\ UNCHANGED <<cmd, cli_params, source, config_file, params, user_settings,
                   defect_object, warnings, events, error, processed,
                   bulk_oxi_set, regen,
                   fs, calls, exit_status, rattle, defect_settings>>

\* cli.py 305-310: input.Distortions(defect_entries, **user_settings)
GenerateDistortions ==
    /\ cmd = "generate" /\ pc = "distortions"
    /\ events' = Append(events, "Distortions")
    /\ pc' = "write"
    /\ UNCHANGED <<cmd, cli_params, source, config_file, params, user_settings,
                   defect_object, defect_entries, warnings, error, processed,
                   bulk_oxi_set, regen,
                   fs, calls, exit_status, rattle, defect_settings>>

\* cli.py 311-374
GenerateWrite ==
    /\ cmd = "generate" /\ pc = "write"
    /\ events' = IF Writer(params["code"]) # NoneStr
                 THEN Append(events, Writer(params["code"]))
                 ELSE events
    /\ pc' = "dump"
    /\ UNCHANGED <<cmd, cli_params, source, config_file, params, user_settings,
                   defect_object, defect_entries, warnings, error, processed,
                   bulk_oxi_set, regen,
                   fs, calls, exit_status, rattle, defect_settings>>

\* cli.py 375-376
GenerateDump ==
    /\ cmd = "generate" /\ pc = "dump"
    /\ events' = Append(events, "dumpfn")
    /\ pc' = "done"
    /\ UNCHANGED <<cmd, cli_params, source, config_file, params, user_settings,
                   defect_object, defect_entries, warnings, error, processed,
                   bulk_oxi_set, regen,
                   fs, calls, exit_status, rattle, defect_settings>>

NextGenerate ==
    \/ GenerateSettings
    \/ GenerateIdentify
    \/ GenerateCharges
    \/ GenerateEntries
    \/ GenerateDistortions
    \/ GenerateWrite
    \/ GenerateDump

-----------------------------------------------------------------------------
(* generate_all *)

GenerateAllParams ==
    {"defects", "structure_file", "bulk", "padding", "code", "config",
     "input_file", "verbose"}

\* The key `defects` holds a str (the --defects directory) or a dict (the
\* `defects` section of a config file): a record tagged by its one field
Path(p) == [path |-> p]
Section(d) == [section |-> d]
IsPath(v) == DOMAIN v = {"path"}

GenerateAllDefaults ==
    [defects |-> Path("."), structure_file |-> "POSCAR", bulk |-> NoneStr,
     padding |-> PaddingDefault, code |-> "VASP", config |-> NoneStr,
     input_file |-> NoneStr, verbose |-> NoneStr]

\* list(locals().keys()) at cli.py 492: `_bulk_oxi_states` is a local only if
\* the branch of line 467 was taken
GenerateAllFuncArgs(oxi_set) ==
    GenerateAllParams \cup
    {"bulk_struct", "bulk_struct_w_oxi", "defects_dirs", "user_settings",
     "defect_settings", "user_potcar_functional", "user_potcar_settings",
     "pseudopotentials"} \cup
    (IF oxi_set THEN {"_bulk_oxi_states"} ELSE {})

GenerateAllValidArgs ==
    {"defects", "bulk", "structure_file", "code", "config", "input_file",
     "verbose", "oxidation_states", "charges", "charge", "padding",
     "dict_number_electrons_user", "distortion_increment", "bond_distortions",
     "local_rattle", "distorted_elements", "stdev", "d_min", "n_iter",
     "active_atoms", "nbr_cutoff", "width", "max_attempts", "max_disp", "seed"}

\* cli.py 474-485: the `defects` section, if truthy, is moved out of
\* user_settings
SplitDefects(settings) ==
    IF "defects" \in DOMAIN settings /\ Truthy(settings["defects"].section)
    THEN [defect_settings |-> settings["defects"].section,
          user_settings |-> Pop(settings, {"defects"})]
    ELSE [defect_settings |-> EmptyDict, user_settings |-> settings]

\* os.listdir(defects): the first NumEntries of these names.  The second is a
\* name format_defect_name does not recognise.
EntryPool == <<"vac_1_Cd", "my_defect", "Int_Cd_1">>
defects_dirs == SubSeq(EntryPool, 1, NumEntries)

\* whether format_defect_name(defect) or format_defect_name(defect_0) returns
\* a name (cli.py 554-558)
Recognised(defect) == defect # "my_defect"

\* defect_object.name, the name identify_defect gives the defect
ObjName == "v_Cd"

\* cli.py 531-562
parse_defect_name(defect, settings) ==
    [defect_name |->
        IF Truthy(settings) /\ defect \in DOMAIN settings THEN defect
        ELSE IF Recognised(defect) THEN defect
        ELSE NoneStr,
     warned |-> Truthy(settings) /\ defect \notin DOMAIN settings]

\* cli.py 564-572
parse_defect_charges(defect_name, settings) ==
    IF defect_name \in DOMAIN settings
    THEN IF "charges" \in DOMAIN settings[defect_name]
         THEN settings[defect_name]["charges"]
         ELSE <<Get(settings[defect_name], "charge", None)>>
    ELSE <<>>

\* cli.py 574-581
parse_defect_position(defect_name, settings) ==
    IF Truthy(settings) /\ defect_name \in DOMAIN settings
    THEN LET defect_index == Get(settings[defect_name], "defect_index", None)
         IN  IF defect_index # None /\ defect_index # 0
             THEN [defect_index |-> defect_index, defect_coords |-> NoneStr]
             ELSE [defect_index |-> None,
                   defect_coords |-> Get(settings[defect_name], "defect_coords", NoneStr)]
    ELSE [defect_index |-> None, defect_coords |-> NoneStr]

\* what one pass of the loop leaves behind for a directory entry
Processed(defect, status, called, pos, user_charges, oxi, charge_states) ==
    [defect |-> defect, status |-> status, called |-> called,
     defect_index |-> pos.defect_index, defect_coords |-> pos.defect_coords,
     oxi_arg |-> NoneStr, user_charges |-> user_charges, oxi_state |-> oxi,
     charge_states |-> charge_states]

NoPosition == [defect_index |-> None, defect_coords |-> NoneStr]

Skipped(defect, warns) ==
    [rec |-> Processed(defect, "skipped", FALSE, NoPosition, <<>>, None, <<>>),
     warnings |-> warns, error |-> NoneStr]

Raised(defect, called, pos, warns, exc) ==
    [rec |-> Processed(defect, "raised", called, pos, <<>>, None, <<>>),
     warnings |-> warns, error |-> exc]

\* cli.py 621-650, once the structure of the entry is parsed
IdentifyAndCharge(defect, identified, oxi, settings, oxi_set, padding) ==
    LET name  == parse_defect_name(defect, settings)
        warns == IF name.warned
                 THEN <<Warning("not found in config file", defect)>> ELSE <<>>
        pos   == parse_defect_position(name.defect_name, settings)
        charges == parse_defect_charges(
                       IF name.defect_name # NoneStr THEN name.defect_name ELSE ObjName,
                       settings)
    IN  IF ~oxi_set THEN Raised(defect, FALSE, pos, warns, "UnboundLocalError")
        ELSE IF ~identified THEN Raised(defect, TRUE, pos, warns, "identify_defect")
        ELSE [rec |-> Processed(defect, "entries", TRUE, pos, charges, oxi,
                        get_charge_states([user_charges |-> charges, oxi_state |-> oxi],
                                          padding)),
              warnings |-> warns, error |-> NoneStr]

\* cli.py 584-650: one pass of `for defect in defects_dirs`.  kind: what
\* isfile / isdir answer; parses: Structure.from_file returns; unique: the
\* directory holds one structure file; identified: identify_defect returns
Iteration(defect, kind, parses, unique, identified, oxi, settings, oxi_set, padding) ==
    IF kind = "file"
    THEN IF parses
         THEN IdentifyAndCharge(defect, identified, oxi, settings, oxi_set, padding)
         ELSE Skipped(defect, <<>>)
    ELSE IF kind = "dir"
    THEN IF ~unique
         THEN Skipped(defect, <<Warning("Multiple structure files found", defect)>>)
         ELSE IF parses
         THEN IdentifyAndCharge(defect, identified, oxi, settings, oxi_set, padding)
         ELSE Raised(defect, FALSE, NoPosition, <<>>, "Structure.from_file")
    ELSE Skipped(defect, <<Warning("Could not parse as a defect", defect)>>)

(* generate_all: the inputs the model draws *)

\* what the file system, the structure parser and identify_defect answer for
\* one entry; an answer the loop never asks for is held at one value
Answers ==
    { a \in [kind : {"file", "dir", "other"}, parses : BOOLEAN, unique : BOOLEAN,
             identified : BOOLEAN, oxi : OxiStates] :
        /\ a.kind # "dir" => a.unique
        /\ (a.kind = "other" \/ ~a.unique) => a.parses
        /\ (a.kind = "other" \/ ~a.unique \/ ~a.parses) => a.identified
        /\ ~a.identified => a.oxi = 0 }

GenerateAllArgvs ==
    { Restrict([defects |-> Path("defects_dir"), bulk |-> "bulk.vasp",
                padding |-> p, config |-> "config.yaml"],
               {"bulk"} \cup Given(p, "padding") \cup (IF d THEN {"defects"} ELSE {})
               \cup (IF cf THEN {"config"} ELSE {})) :
        p \in PaddingVals \cup {None}, d \in BOOLEAN, cf \in BOOLEAN }

\* what the config file says of one defect: any of charges, charge,
\* defect_index, defect_coords
DefectSettingChoices ==
    { Restrict(full, D) :
        full \in [charges : {<<1, 0 - 1>>}, charge : {1},
                  defect_index : 0..MaxIndex, defect_coords : {"0.5 0.5 0.5"}],
        D \in SUBSET {"charges", "charge", "defect_index", "defect_coords"} }

\* the `defects` section: empty, or one defect, named as its directory entry
\* or as identify_defect names it
ConfigSections ==
    {EmptyDict} \cup
    { [n \in {name} |-> setting] :
        name \in {"vac_1_Cd", "my_defect", ObjName}, setting \in DefectSettingChoices }

GenerateAllConfigKeys == {"defects", "padding", "stdev", "POTCAR", "foo", "bar"}

GenerateAllConfigsOver(keys, sections) ==
    { Restrict(full, D) :
        full \in [defects : {Section(d) : d \in sections}, padding : {0},
                  stdev : {"0.25"}, POTCAR : {"potcar.yaml"}, foo : {"x"},
                  bar : {"y"}],
        D \in {K \in SUBSET keys : Cardinality(K) <= MaxConfigKeys} }

InitGenerateAll ==
    InitCommand("generate_all", GenerateAllArgvs, GenerateAllDefaults,
                GenerateAllConfigsOver({"defects", "padding"}, ConfigSections))

\* cli.py 464-529: guess the bulk oxidation states, list the directory, load
\* and filter the config
GenerateAllSetup ==
    /\ cmd = "generate_all" /\ pc = "settings"
    /\ \E guessed \in BOOLEAN :
          /\ bulk_oxi_set' = guessed
          /\ IF ~IsPath(params["defects"])
             THEN /\ error' = "TypeError"
                  /\ pc' = "failed"
                  /\ UNCHANGED <<user_settings, defect_settings>>
             ELSE LET split == SplitDefects(LoadSettings(params["config"], config_file))
                  IN  /\ defect_settings' = split.defect_settings
                      /\ user_settings' =
                            FilterSettings(Pop(split.user_settings, PotcarKeys),
                                           GenerateAllFuncArgs(guessed),
                                           GenerateAllValidArgs)
                      /\ pc' = "loop"
                      /\ error' = error
    /\ UNCHANGED <<cmd, cli_params, source, config_file, params, defect_object,
                   defect_entries, warnings, events, processed, regen,
                   fs, calls, exit_status, rattle>>

\* cli.py 584-650: the next entry of defects_dirs
GenerateAllDefect ==
    /\ cmd = "generate_all" /\ pc = "loop"
    /\ Len(processed) < Len(defects_dirs)
    /\ \E a \in Answers :
          LET defect == defects_dirs[Len(processed) + 1]
              it == Iteration(defect, a.kind, a.parses, a.unique, a.identified,
                              a.oxi, defect_settings, bulk_oxi_set, params["padding"])
          IN  /\ processed' = Append(processed, it.rec)
              /\ warnings' = warnings \o it.warnings
              /\ events' = IF it.rec.called
                           THEN Append(events, "identify_defect") ELSE events
              /\ defect_entries' =
                    defect_entries \o DefectEntries(defect, it.rec.charge_states)
              /\ error' = it.error
              /\ pc' = IF it.rec.status = "raised" THEN "failed" ELSE pc
    /\ UNCHANGED <<cmd, cli_params, source, config_file, params, user_settings,
                   defect_settings, defect_object, bulk_oxi_set, regen,
                   fs, calls, exit_status, rattle>>

\* cli.py 652-661
GenerateAllDistortions ==
    /\ cmd = "generate_all" /\ pc = "loop"
    /\ Len(processed) = Len(defects_dirs)
    /\ events' = Append(events, "Distortions")
    /\ pc' = "write"
    /\ UNCHANGED <<cmd, cli_params, source, config_file, params, user_settings,
                   defect_settings, defect_object, defect_entries, warnings,
                   error, processed, bulk_oxi_set, regen, fs, calls, exit_status, rattle>>

\* cli.py 662-728: the dump of line 728 is in the body of the last branch
GenerateAllWrite ==
    /\ cmd = "generate_all" /\ pc = "write"
    /\ events' =
          LET writer == Writer(params["code"])
          IN  IF writer = NoneStr THEN events
              ELSE IF writer = "write_fhi_aims_files"
              THEN events \o <<writer, "dumpfn">>
              ELSE Append(events, writer)
    /\ pc' = "done"
    /\ UNCHANGED <<cmd, cli_params, source, config_file, params, user_settings,
                   defect_settings, defect_object, defect_entries, warnings,
                   error, processed, bulk_oxi_set, regen, fs, calls, exit_status, rattle>>

NextGenerateAll ==
    \/ GenerateAllSetup
    \/ GenerateAllDefect
    \/ GenerateAllDistortions
    \/ GenerateAllWrite

-----------------------------------------------------------------------------
(* regenerate. Energies and --min_energy are in units of 0.01 eV. The       *)
(* relaxed structure of a trial is its geometry, a number: two structures  *)
(* are equivalent under structure matching when their geometries are equal. *)

\* the charge states a defect may have a folder for
NumCharges == 2
RegenCharges == (1 - NumCharges)..0

\* default of --min_energy (0.05 eV)
MinEnergyDefault == 5

\* cli.py 1239-1292: the defaults of the options
RegenerateDefaults ==
    [path |-> ".", code |-> "vasp", filename |-> "CONTCAR",
     min_energy |-> MinEnergyDefault, metastable |-> FALSE, verbose |-> FALSE]

\* the distortions of a charge state, in the order they are scanned
DistortionOrder == <<"Bond_Distortion_-30.0%", "Rattled">>
DistortionLabels == Elems(DistortionOrder)
Labels == {"Unperturbed"} \cup DistortionLabels

UnperturbedEnergies == {0 - 2, 0}
DistortionEnergies == {0 - 8, 0 - 5, 0}

\* the final energies found in one defect_charge folder
EnergyRecords ==
    { e \in [Labels -> UnperturbedEnergies \cup DistortionEnergies] :
        /\ e["Unperturbed"] \in UnperturbedEnergies
        /\ \A d \in DistortionLabels : e[d] \in DistortionEnergies }

\* a defect_charge folder without energy records
NoEnergies == <<>>

\* the defect folders of one defect under --path, by charge state
DefectTrees == UNION { [cs -> EnergyRecords] : cs \in SUBSET RegenCharges }

\* the geometries a distortion may relax to; Unperturbed relaxes to geometry 0
NumGeometries == 2
Geometries == 1..NumGeometries

\* one trial structure of a charge state, with its metadata: the distortion,
\* the charge state it was taken from (None for the trials generated for the
\* charge state itself) and the relaxed geometry
Trial(distortion, from, geometry) ==
    [distortion |-> distortion, from |-> from, geometry |-> geometry]

\* folders whose distortions all relax to geometries of their own
Distinct(charges) ==
    [c \in charges |->
        { Trial("Unperturbed", None, 0),
          Trial("Bond_Distortion_-30.0%", None, 1 - 2 * c),
          Trial("Rattled", None, 2 - 2 * c) }]

\* folders whose distortions relax to the same geometries in every charge state
Alike(charges) ==
    [c \in charges |->
        { Trial("Unperturbed", None, 0),
          Trial("Bond_Distortion_-30.0%", None, 1),
          Trial("Rattled", None, 0) }]

\* what is found under --path: the energies and the trials of each folder
Folders(tree, trials) == [tree |-> tree, trials |-> trials]

RegenerateFolders ==
    UNION { { Folders(tree, Distinct(DOMAIN tree)), Folders(tree, Alike(DOMAIN tree)) } :
            tree \in DefectTrees }

RegenerateArgvs ==
    { Restrict([path |-> "defects", min_energy |-> m, metastable |-> TRUE],
               Given(m, "min_energy") \cup (IF p THEN {"path"} ELSE {})
               \cup (IF meta THEN {"metastable"} ELSE {})) :
        m \in {None, 0, 3}, p \in BOOLEAN, meta \in BOOLEAN }

\* energy_lowering_distortions.read_defects_directories: the charge states
\* that have a folder
read_defects_directories(tree) == DOMAIN tree

\* the lowest energy among the distortions of one charge state
LowestEnergy(energies) ==
    CHOOSE e \in {energies[d] : d \in DistortionLabels} :
        \A d \in DistortionLabels : e <= energies[d]

\* the ground-state distortion of one charge state
GroundState(energies) ==
    CHOOSE d \in DistortionLabels : energies[d] = LowestEnergy(energies)

\* Scan, were a folder without energy records taken to hold the ground state
Scan_MissingAsGroundState(tree, min_e_diff, metastable) ==
    { f \in [charge : DOMAIN tree, distortion : DistortionLabels] :
        IF tree[f.charge] = NoEnergies
        THEN f.distortion = DistortionOrder[1]
        ELSE /\ tree[f.charge][f.distortion] < tree[f.charge]["Unperturbed"] - min_e_diff
             /\ metastable \/ f.distortion = GroundState(tree[f.charge]) }

\* Scan: the (charge, distortion) pairs flagged energy-lowering; a folder
\* without energy records is passed over
Scan(tree, min_e_diff, metastable) ==
    { f \in [charge : DOMAIN tree, distortion : DistortionLabels] :
        /\ tree[f.charge] # NoEnergies
        /\ tree[f.charge][f.distortion] < tree[f.charge]["Unperturbed"] - min_e_diff
        /\ metastable \/ f.distortion = GroundState(tree[f.charge]) }

\* the relaxed geometry of a distortion in the charge state it was found in
GeometryOf(trials, charge, distortion) ==
    (CHOOSE t \in trials[charge] : t.distortion = distortion /\ t.from = None).geometry

\* Propagate: each flagged distortion is proposed as a trial of every other
\* charge state, in scan order (charge states ascending, then distortions)
Propagate(flagged, charges, trials) ==
    LET cs == SortedList(charges)
        n  == Len(cs)
        l  == Len(DistortionOrder)
        all == [k \in 1..(n * l * n) |->
                  LET from == cs[((k - 1) \div (l * n)) + 1]
                      distortion == DistortionOrder[(((k - 1) \div n) % l) + 1]
                  IN  [from |-> from, distortion |-> distortion,
                       to |-> cs[((k - 1) % n) + 1],
                       geometry |-> GeometryOf(trials, from, distortion)]]
        Proposed(p) == /\ [charge |-> p.from, distortion |-> p.distortion] \in flagged
                       /\ p.to # p.from
    IN  SelectSeq(all, Proposed)

\* Deduplicate, were a proposal compared with the trials generated for the
\* target alone, not with those propagated to it before
Equivalent_OwnTrialsOnly(p, trials) ==
    \E t \in trials[p.to] : t.from = None /\ t.geometry = p.geometry

\* Deduplicate: the target charge state already holds an equivalent structure
Equivalent(p, trials) == \E t \in trials[p.to] : t.geometry = p.geometry

\* Deduplicate, were the propagated trial written over the target's trial of
\* the same distortion
Deduplicate_Overwrite(p, trials) ==
    IF Equivalent(p, trials)
    THEN trials
    ELSE [trials EXCEPT ![p.to] = {t \in @ : t.distortion # p.distortion}
                                  \cup {Trial(p.distortion, p.from, p.geometry)}]

\* Deduplicate: the trials of the charge states once proposal p is dealt with
Deduplicate(p, trials) ==
    IF Equivalent(p, trials)
    THEN trials
    ELSE [trials EXCEPT ![p.to] = @ \cup {Trial(p.distortion, p.from, p.geometry)}]

\* regenerate, were the input files not asked for
RegenerateArgs_NoWrite(ps, defect_charges_dict) ==
    [defect_charges_dict |-> defect_charges_dict, output_path |-> ps["path"],
     code |-> ps["code"], structure_filename |-> ps["filename"],
     write_input_files |-> FALSE, min_e_diff |-> ps["min_energy"],
     metastable |-> ps["metastable"], verbose |-> ps["verbose"]]

\* regenerate, were --min_energy not handed on
RegenerateArgs_DefaultMinEDiff(ps, defect_charges_dict) ==
    [defect_charges_dict |-> defect_charges_dict, output_path |-> ps["path"],
     code |-> ps["code"], structure_filename |-> ps["filename"],
     write_input_files |-> TRUE, min_e_diff |-> MinEnergyDefault,
     metastable |-> ps["metastable"], verbose |-> ps["verbose"]]

\* cli.py 1311-1320: the arguments of get_energy_lowering_distortions
RegenerateArgs(ps, defect_charges_dict) ==
    [defect_charges_dict |-> defect_charges_dict, output_path |-> ps["path"],
     code |-> ps["code"], structure_filename |-> ps["filename"],
     write_input_files |-> TRUE, min_e_diff |-> ps["min_energy"],
     metastable |-> ps["metastable"], verbose |-> ps["verbose"]]

\* the phases of the consolidation of a defect, in order
Phases == <<"Start", "Scanned", "EnergyLoweringFound", "Propagated", "Deduplicated">>

InitRegenerateOver(argvs, folders) ==
    /\ cmd = "regenerate"
    /\ pc = "read"
    /\ \E argv \in argvs :
          /\ cli_params = ParsedParams(argv, RegenerateDefaults)
          /\ source = ParameterSource(argv, RegenerateDefaults)
    /\ params = cli_params
    /\ config_file = EmptyDict
    /\ user_settings = EmptyDict
    /\ defect_settings = EmptyDict
    /\ defect_object = NoDefect
    /\ defect_entries = <<>>
    /\ warnings = <<>>
    /\ events = <<>>
    /\ error = NoneStr
    /\ processed = <<>>
    /\ bulk_oxi_set = FALSE
    /\ \E f \in folders :
          regen = [tree |-> f.tree, trials |-> f.trials, defect_charges_dict |-> {},
                   args |-> EmptyDict, phase |-> "Start", scanned |-> <<>>,
                   flagged |-> {}, proposals |-> <<>>, dealt |-> 0, duplicates |-> {}]
    /\ fs = <<>>
    /\ calls = <<>>
    /\ exit_status = None
    /\ rattle = <<>>

InitRegenerate == InitRegenerateOver(RegenerateArgvs, RegenerateFolders)

\* a defect with the charge states -2, -1 and 0: in each, the bond distortion
\* lowers the energy alone, or with Rattled as a metastable minimum, or
\* nothing does, or the folder has no energy records; the bond distortion
\* relaxes to one of Geometries, Rattled back to the Unperturbed geometry
ConsolidateCharges == {0 - 2, 0 - 1, 0}

ConsolidateEnergies ==
    { NoEnergies,
      [l \in Labels |-> 0],
      [l \in Labels |-> IF l = "Bond_Distortion_-30.0%" THEN 0 - 8 ELSE 0],
      [l \in Labels |-> IF l = "Bond_Distortion_-30.0%" THEN 0 - 8
                        ELSE IF l = "Rattled" THEN 0 - 6 ELSE 0] }

ConsolidateFolders ==
    { Folders(tree, [c \in ConsolidateCharges |->
                        { Trial("Unperturbed", None, 0),
                          Trial("Bond_Distortion_-30.0%", None, g[c]),
                          Trial("Rattled", None, 0) }]) :
        tree \in [ConsolidateCharges -> ConsolidateEnergies],
        g \in [ConsolidateCharges -> Geometries] }

ConsolidateArgvs ==
    { Restrict([metastable |-> TRUE], IF meta THEN {"metastable"} ELSE {}) :
        meta \in BOOLEAN }

InitConsolidate == InitRegenerateOver(ConsolidateArgvs, ConsolidateFolders)

\* cli.py 1302-1310
RegenerateRead ==
    /\ cmd = "regenerate" /\ pc = "read"
    /\ params' = [params EXCEPT !["path"] = IF @ = "." THEN "cwd" ELSE @]
    /\ regen' = [regen EXCEPT !.defect_charges_dict = read_defects_directories(regen.tree)]
    /\ IF regen'.defect_charges_dict = {}
       THEN error' = "FileNotFoundError" /\ pc' = "failed"
       ELSE error' = error /\ pc' = "consolidate"
    /\ UNCHANGED <<cmd, cli_params, source, config_file, user_settings, defect_settings,
                   defect_object, defect_entries, warnings, events, processed,
                   bulk_oxi_set, fs, calls, exit_status, rattle>>

\* cli.py 1311-1320: get_energy_lowering_distortions is called
RegenerateConsolidate ==
    /\ cmd = "regenerate" /\ pc = "consolidate"
    /\ regen' = [regen EXCEPT !.args = RegenerateArgs(params, regen.defect_charges_dict)]
    /\ events' = Append(events, "get_energy_lowering_distortions")
    /\ pc' = "scan"
    /\ UNCHANGED <<cmd, cli_params, source, config_file, params, user_settings,
                   defect_settings, defect_object, defect_entries, warnings, error,
                   processed, bulk_oxi_set, fs, calls, exit_status, rattle>>

\* what get_energy_lowering_distortions leaves alone
ConsolidatorFrame ==
    UNCHANGED <<cmd, cli_params, source, config_file, params, user_settings,
                defect_settings, defect_object, defect_entries, warnings, error,
                processed, bulk_oxi_set, fs, calls, exit_status, rattle>>

\* Scan, one charge state at a time, in ascending order
ConsolidatorScan ==
    /\ cmd = "regenerate" /\ pc = "scan"
    /\ LET order == SortedList(regen.args.defect_charges_dict)
           c     == order[Len(regen.scanned) + 1]
           last  == Len(regen.scanned) + 1 = Len(order)
       IN  /\ regen' = [regen EXCEPT
                  !.scanned = Append(@, c),
                  !.flagged = @ \cup {f \in Scan(regen.tree, regen.args.min_e_diff,
                                                 regen.args.metastable) : f.charge = c},
                  !.phase = IF last THEN "Scanned" ELSE @]
           /\ pc' = IF last THEN "found" ELSE pc
    /\ UNCHANGED events
    /\ ConsolidatorFrame

\* the consolidation, were the distortions proposed as soon as one is found
ConsolidatorFound_SkipsAhead ==
    /\ cmd = "regenerate" /\ pc = "found"
    /\ IF regen.flagged = {}
       THEN regen' = regen /\ pc' = "done"
       ELSE /\ regen' = [regen EXCEPT
                   !.proposals = Propagate(regen.flagged, regen.args.defect_charges_dict,
                                           regen.trials),
                   !.phase = "Propagated"]
            /\ pc' = "deduplicate"
    /\ UNCHANGED events
    /\ ConsolidatorFrame

\* the scan found an energy-lowering distortion, or the consolidation ends
ConsolidatorFound ==
    /\ cmd = "regenerate" /\ pc = "found"
    /\ IF regen.flagged = {}
       THEN regen' = regen /\ pc' = "done"
       ELSE regen' = [regen EXCEPT !.phase = "EnergyLoweringFound"] /\ pc' = "propagate"
    /\ UNCHANGED events
    /\ ConsolidatorFrame

ConsolidatorPropagate ==
    /\ cmd = "regenerate" /\ pc = "propagate"
    /\ regen' = [regen EXCEPT
          !.proposals = Propagate(regen.flagged, regen.args.defect_charges_dict,
                                  regen.trials),
          !.phase = "Propagated"]
    /\ pc' = "deduplicate"
    /\ UNCHANGED events
    /\ ConsolidatorFrame

\* Deduplicate, one proposal at a time: write it unless the target already
\* holds an equivalent structure
ConsolidatorDeduplicate ==
    /\ cmd = "regenerate" /\ pc = "deduplicate"
    /\ IF regen.dealt = Len(regen.proposals)
       THEN /\ regen' = [regen EXCEPT !.phase = "Deduplicated"]
            /\ pc' = "done"
            /\ UNCHANGED events
       ELSE LET p == regen.proposals[regen.dealt + 1]
                write == ~Equivalent(p, regen.trials) /\ regen.args.write_input_files
            IN  /\ regen' = [regen EXCEPT
                       !.dealt = @ + 1,
                       !.trials = IF write THEN Deduplicate(p, @) ELSE @,
                       !.duplicates = IF Equivalent(p, regen.trials)
                                      THEN @ \cup {p} ELSE @]
                /\ events' = IF write THEN Append(events, "write_input_files") ELSE events
                /\ pc' = pc
    /\ ConsolidatorFrame

NextRegenerate ==
    \/ RegenerateRead
    \/ RegenerateConsolidate
    \/ ConsolidatorScan
    \/ ConsolidatorFound
    \/ ConsolidatorPropagate
    \/ ConsolidatorDeduplicate

-----------------------------------------------------------------------------
(* rattle: the constrained random displacement of the atoms of a structure, *)
(* one atom after the other. A draw is accepted when it keeps every pair of *)
(* atoms at the minimum distance or more; the standard deviation of the     *)
(* draws of an atom is stdev times the decay factor to the power of the     *)
(* rounds it has used up.                                                   *)

\* the atoms of the structure
NumAtoms == 2
Atoms == 1..NumAtoms

\* the largest max_attempts drawn, and the rounds of draws an atom is given
MaxAttempts == 2
DecayRounds == 2

\* the atoms to rattle: all of them, or with local_rattle those of the
\* neighbour sphere
InitRattle ==
    /\ cmd = "rattle"
    /\ pc = "draw"
    /\ \E max_attempts \in 1..MaxAttempts, sphere \in SUBSET Atoms, local_rattle \in BOOLEAN :
          rattle = [max_attempts |-> max_attempts,
                    local_rattle |-> local_rattle,
                    order |-> SortedList(IF local_rattle THEN sphere ELSE Atoms),
                    at |-> 1, round |-> 1, attempt |-> 0,
                    draws |-> [a \in Atoms |-> 0],
                    displaced |-> {}, left |-> {}]
    /\ cli_params = EmptyDict
    /\ source = EmptyDict
    /\ params = EmptyDict
    /\ config_file = EmptyDict
    /\ user_settings = EmptyDict
    /\ defect_settings = EmptyDict
    /\ defect_object = NoDefect
    /\ defect_entries = <<>>
    /\ warnings = <<>>
    /\ events = <<>>
    /\ error = NoneStr
    /\ processed = <<>>
    /\ bulk_oxi_set = FALSE
    /\ regen = <<>>
    /\ fs = <<>>
    /\ calls = <<>>
    /\ exit_status = None

RattleFrame ==
    UNCHANGED <<cmd, cli_params, source, config_file, params, user_settings,
                defect_settings, defect_object, defect_entries, events, error,
                processed, bulk_oxi_set, regen, fs, calls, exit_status>>

Rattling == cmd = "rattle" /\ pc = "draw" /\ rattle.at <= Len(rattle.order)

Atom == rattle.order[rattle.at]

\* the rattle goes on to the next atom, or ends
NextAtom(r) == [r EXCEPT !.at = @ + 1, !.round = 1, !.attempt = 0]

\* there is nothing to rattle
RattleNothing ==
    /\ cmd = "rattle" /\ pc = "draw" /\ rattle.order = <<>>
    /\ pc' = "done"
    /\ UNCHANGED <<rattle, warnings>>
    /\ RattleFrame

\* a draw that keeps the minimum distance: the atom is displaced
RattleAccept ==
    /\ Rattling /\ rattle.attempt < rattle.max_attempts
    /\ rattle' = NextAtom([rattle EXCEPT !.draws[Atom] = @ + 1,
                                         !.displaced = @ \cup {Atom}])
    /\ pc' = IF rattle.at = Len(rattle.order) THEN "done" ELSE pc
    /\ UNCHANGED warnings
    /\ RattleFrame

\* a draw that brings two atoms too close: rejected
RattleReject ==
    /\ Rattling /\ rattle.attempt < rattle.max_attempts
    /\ rattle' = [rattle EXCEPT !.draws[Atom] = @ + 1, !.attempt = @ + 1]
    /\ UNCHANGED <<pc, warnings>>
    /\ RattleFrame

\* the rattle, were the attempts of an atom started again at the same
\* standard deviation
RattleDecay_SameRound ==
    /\ Rattling /\ rattle.attempt = rattle.max_attempts
    /\ rattle.round < DecayRounds
    /\ rattle' = [rattle EXCEPT !.attempt = 0]
    /\ UNCHANGED <<pc, warnings>>
    /\ RattleFrame

\* max_attempts draws were rejected: the standard deviation of the atom is
\* shrunk and its attempts start again
RattleDecay ==
    /\ Rattling /\ rattle.attempt = rattle.max_attempts
    /\ rattle.round < DecayRounds
    /\ rattle' = [rattle EXCEPT !.round = @ + 1, !.attempt = 0]
    /\ UNCHANGED <<pc, warnings>>
    /\ RattleFrame

\* the last round is used up: the atom stays where it was, with a warning
RattleLeave ==
    /\ Rattling /\ rattle.attempt = rattle.max_attempts
    /\ rattle.round = DecayRounds
    /\ rattle' = NextAtom([rattle EXCEPT !.left = @ \cup {Atom}])
    /\ warnings' = Append(warnings, Warning("atom left at its original position", "rattle"))
    /\ pc' = IF rattle.at = Len(rattle.order) THEN "done" ELSE pc
    /\ RattleFrame

NextRattle ==
    \/ RattleNothing
    \/ RattleAccept
    \/ RattleReject
    \/ RattleDecay
    \/ RattleLeave

-----------------------------------------------------------------------------
(* The commands that only read the defect folders: mag, parse, analyse *)

\* the state when click has parsed the command line of `command`, the
\* working directory and the files under it being one of `files`
InitTool(command, argvs, defaults, files) ==
    /\ cmd = command
    /\ pc = "invoke"
    /\ \E argv \in argvs :
          /\ cli_params = ParsedParams(argv, defaults)
          /\ source = ParameterSource(argv, defaults)
    /\ params = cli_params
    /\ fs \in files
    /\ config_file = EmptyDict
    /\ user_settings = EmptyDict
    /\ defect_settings = EmptyDict
    /\ defect_object = NoDefect
    /\ defect_entries = <<>>
    /\ warnings = <<>>
    /\ events = <<>>
    /\ error = NoneStr
    /\ processed = <<>>
    /\ bulk_oxi_set = FALSE
    /\ regen = <<>>
    /\ calls = <<>>
    /\ exit_status = None
    /\ rattle = <<>>

(* mag. Magnetic moments are counted in units of 0.005 muB, so that the     *)
(* default threshold of 0.01 muB is 2 and the threshold on the total ten    *)
(* times that. The magnetization of an OUTCAR is kept as runs of atoms of   *)
(* the same moment, [tot, atoms]: `atoms` entries of the list, each with    *)
(* m["tot"] = tot.                                                          *)

ThresholdDefault == 2

MagDefaults == [outcar |-> "OUTCAR", threshold |-> ThresholdDefault, verbose |-> FALSE]

MagArgvs ==
    { Restrict([outcar |-> "OUTCAR.gz", threshold |-> t, verbose |-> TRUE],
               Given(t, "threshold") \cup (IF o THEN {"outcar"} ELSE {})
               \cup (IF v THEN {"verbose"} ELSE {})) :
        t \in {None, 0, 1, 3}, o \in BOOLEAN, v \in BOOLEAN }

\* the moments of one atom, and the lengths of the runs: one atom, and the
\* numbers of atoms of moment 1 that bring the total just under and up to
\* ten times the default threshold
MaxRuns == 2
Moments == {0 - 2, 0 - 1, 0, 1}
RunLengths == {1, 10 * ThresholdDefault - 1, 10 * ThresholdDefault}

\* the OUTCAR files: one that cannot be read, and those that can, with the
\* magnetization they hold (none at all when the run was not spin polarised)
Outcars ==
    { [readable |-> FALSE, magnetization |-> <<>>] } \cup
    { [readable |-> TRUE, magnetization |-> m] :
        m \in UNION { [1..n -> [tot : Moments, atoms : RunLengths]] : n \in 0..MaxRuns } }

InitMag == InitTool("mag", MagArgvs, MagDefaults, Outcars)

Abs(x) == IF x < 0 THEN 0 - x ELSE x

\* abs_mag_values = [abs(m["tot"]) for m in outcar_obj.magnetization]
AbsMagValues(magnetization) ==
    [i \in DOMAIN magnetization |->
        [tot |-> Abs(magnetization[i].tot), atoms |-> magnetization[i].atoms]]

\* max(abs_mag_values), of a list that is not empty
MaxOf(values) ==
    CHOOSE m \in {values[i].tot : i \in DOMAIN values} :
        \A i \in DOMAIN values : values[i].tot <= m

\* sum(abs_mag_values)
RECURSIVE SumOf(_)
SumOf(values) ==
    IF values = <<>> THEN 0
    ELSE Head(values).tot * Head(values).atoms + SumOf(Tail(values))

\* mag, were the total moment not tested
mag_NoTotal(outcar, threshold) ==
    IF ~outcar.readable \/ outcar.magnetization = <<>>
    THEN [status |-> 1, print |-> "Could not read magnetisation"]
    ELSE LET abs_mag_values == AbsMagValues(outcar.magnetization)
         IN  IF MaxOf(abs_mag_values) < threshold
             THEN [status |-> 0, print |-> "Magnetisation is below threshold"]
             ELSE [status |-> 1, print |-> "Magnetisation is above threshold"]

\* mag: the exit status, and what is printed with --verbose. get_outcar
\* raises on a file it cannot read and max() on an empty list; both are
\* caught by `except Exception`, which sys.exit (a SystemExit) passes through
mag(outcar, threshold) ==
    IF ~outcar.readable \/ outcar.magnetization = <<>>
    THEN [status |-> 1, print |-> "Could not read magnetisation"]
    ELSE LET abs_mag_values == AbsMagValues(outcar.magnetization)
         IN  IF /\ MaxOf(abs_mag_values) < threshold
                /\ SumOf(abs_mag_values) < threshold * 10
             THEN [status |-> 0, print |-> "Magnetisation is below threshold"]
             ELSE [status |-> 1, print |-> "Magnetisation is above threshold"]

\* the whole command
Mag ==
    /\ cmd = "mag" /\ pc = "invoke"
    /\ LET result == mag(fs, params.threshold)
       IN  /\ exit_status' = result.status
           /\ events' = IF params.verbose THEN Append(events, result.print) ELSE events
    /\ pc' = "exited"
    /\ UNCHANGED <<cmd, cli_params, source, config_file, params, user_settings,
                   defect_settings, defect_object, defect_entries, warnings, error,
                   processed, bulk_oxi_set, regen, rattle, fs, calls>>

NextMag == Mag

(* parse and analyse. The working directory is "cwd", the directory above   *)
(* it "parent", and "runs" is a directory given with --path; the option's   *)
(* default "." names the working directory.                                 *)

\* the names of the defect folders, and how many of them a directory holds
DefectNames == {"vac_1_Cd_0", "vac_1_Cd_-1", "Int_Cd_2_0"}
MaxDefectDirs == 2

\* the names of the entries of a defect folder, letter by letter
RattledName == <<"R", "a", "t", "t", "l", "e", "d">>
UnperturbedName == <<"U", "n", "p", "e", "r", "t", "u", "r", "b", "e", "d">>
BondDistortionName == <<"B", "o", "n", "d", "_", "D", "i", "s", "t", "o", "r", "t", "i", "o", "n", "_", "-", "3", "0", ".", "0", "%">>
DimerName == <<"D", "i", "m", "e", "r">>

\* ["Rattled", "Unperturbed", "Bond_Distortion", "Dimer"]
DistortionPrefixes ==
    <<RattledName, UnperturbedName, <<"B", "o", "n", "d", "_", "D", "i", "s", "t", "o", "r", "t", "i", "o", "n">>, DimerName>>

\* an entry of a directory: its name, what os.path.isdir answers and, for a
\* directory, the names os.listdir gives for it
Entry(name, isdir, contents) == [name |-> name, isdir |-> isdir, contents |-> contents]

DefectFolder(name) == Entry(name, TRUE, {UnperturbedName, BondDistortionName})

Names(listing) == { listing[i].name : i \in DOMAIN listing }

\* os.listdir gives the folders in any order, each once
Listings ==
    { [i \in DOMAIN l |-> DefectFolder(l[i])] :
        l \in { m \in UNION { [1..n -> DefectNames] : n \in 0..MaxDefectDirs } :
                  \A i, j \in DOMAIN m : i # j => m[i] # m[j] } }

\* the folders: the name of the working directory, whether it holds
\* distortion folders (Bond_Distortion*, Rattled*, Unperturbed*, Dimer*),
\* whether it holds a folder that format_defect_name recognises, and the
\* entries of the working directory and of "runs"
Directories ==
    [cwd : {"defects", "vac_1_Cd_0"}, distortions : BOOLEAN, named : BOOLEAN,
     listing : [{".", "runs"} -> Listings]]

\* fnmatch.filter(names, f"{dist}*"): the names that start with dist
fnmatch_filter(names, dist) ==
    { n \in names : Len(n) >= Len(dist) /\ SubSeq(n, 1, Len(dist)) = dist }

\* _parse_defect_dirs, were every directory under path returned
_parse_defect_dirs_AllDirs(path, dirs) ==
    LET IsDir(e) == e.isdir
        kept == SelectSeq(dirs.listing[path], IsDir)
    IN  [i \in DOMAIN kept |-> kept[i].name]

\* _parse_defect_dirs(path): the entries of path, in the order of os.listdir,
\* that are directories and hold an entry matching one of the patterns
_parse_defect_dirs(path, dirs) ==
    LET IsDefectDir(e) ==
            /\ e.isdir
            /\ \E k \in DOMAIN DistortionPrefixes :
                  fnmatch_filter(e.contents, DistortionPrefixes[k]) # {}
        kept == SelectSeq(dirs.listing[path], IsDefectDir)
    IN  [i \in DOMAIN kept |-> kept[i].name]

\* _running_in_defect_dir: it lists the working directory whatever `path` is
_running_in_defect_dir(dirs) == dirs.distortions

\* and warns when the working directory holds defect folders as well
RunningInDefectDirWarnings(dirs) ==
    IF dirs.distortions /\ dirs.named
    THEN <<Warning("Both distortion folders and defect folders were found", "cwd")>>
    ELSE <<>>

Call(fn, defect, path) == [fn |-> fn, defect |-> defect, path |-> path]

FolderDefaults == [defect |-> NoneStr, path |-> ".", code |-> "vasp", verbose |-> FALSE]

\* --defect is a str option: the empty string can be given, and a folder
\* name with its trailing slash
FolderArgvs ==
    { Restrict([defect |-> d, path |-> p, verbose |-> TRUE],
               (IF d # NoneStr THEN {"defect"} ELSE {})
               \cup (IF p # NoneStr THEN {"path"} ELSE {})
               \cup (IF v THEN {"verbose"} ELSE {})) :
        d \in {NoneStr, "", "vac_1_Cd_0", "vac_1_Cd_0/"}, p \in {NoneStr, ".", "runs"}, v \in BOOLEAN }

InitParse == InitTool("parse", FolderArgvs, FolderDefaults, Directories)

\* parse, were `path == "."` not tested
parse_AnyPath(defect, path, dirs) ==
    IF defect \notin {NoneStr, ""}
    THEN <<Call("parse_energies", defect, path)>>
    ELSE IF _running_in_defect_dir(dirs)
    THEN <<Call("parse_energies", dirs.cwd, "parent")>>
    ELSE [i \in DOMAIN _parse_defect_dirs(path, dirs) |->
            Call("parse_energies", _parse_defect_dirs(path, dirs)[i], path)]

\* parse: the calls of io.parse_energies. `if defect:` is false for None and
\* for the empty string
parse(defect, path, dirs) ==
    IF defect \notin {NoneStr, ""}
    THEN <<Call("parse_energies", defect, path)>>
    ELSE IF _running_in_defect_dir(dirs) /\ path = "."
    THEN <<Call("parse_energies", dirs.cwd, "parent")>>
    ELSE [i \in DOMAIN _parse_defect_dirs(path, dirs) |->
            Call("parse_energies", _parse_defect_dirs(path, dirs)[i], path)]

\* the whole command; _running_in_defect_dir is called, and may warn, only
\* once `if defect:` has failed
Parse ==
    /\ cmd = "parse" /\ pc = "invoke"
    /\ calls' = parse(params.defect, params.path, fs)
    /\ warnings' = IF params.defect \in {NoneStr, ""}
                   THEN warnings \o RunningInDefectDirWarnings(fs)
                   ELSE warnings
    /\ pc' = "done"
    /\ UNCHANGED <<cmd, cli_params, source, config_file, params, user_settings,
                   defect_settings, defect_object, defect_entries, events, error,
                   processed, bulk_oxi_set, regen, rattle, fs, exit_status>>

NextParse == Parse

\* parse from a top-level directory, over what its entries are and hold: a
\* plain file, or a directory that holds nothing, one entry, or an OUTCAR and
\* one entry; among the entries, names that differ from a pattern in case,
\* that hold a pattern but do not start with it, or that are cut short
OutcarName == <<"O", "U", "T", "C", "A", "R">>
ContentNames ==
    { RattledName, UnperturbedName, BondDistortionName, DimerName, OutcarName,
      <<"r", "a", "t", "t", "l", "e", "d">>,
      <<"O", "l", "d", "_", "R", "a", "t", "t", "l", "e", "d">>,
      <<"D", "i", "m", "e">> }

Contents ==
    { {} } \cup { {n} : n \in ContentNames } \cup { {OutcarName, n} : n \in ContentNames }

MaxEntries == 2

Trees ==
    { t \in UNION { [1..n -> [name : DefectNames, isdir : BOOLEAN, contents : Contents]] :
                     n \in 0..MaxEntries } :
        /\ \A i, j \in DOMAIN t : i # j => t[i].name # t[j].name
        /\ \A i \in DOMAIN t : ~t[i].isdir => t[i].contents = {} }

TreeDirectories ==
    { [cwd |-> "defects", distortions |-> FALSE, named |-> FALSE,
       listing |-> [p \in {".", "runs"} |-> IF p = "." THEN t ELSE <<>>]] :
        t \in Trees }

InitParseTrees ==
    InitTool("parse", { a \in FolderArgvs : DOMAIN a \subseteq {"verbose"} },
             FolderDefaults, TreeDirectories)

(* analyse *)

InitAnalyse == InitTool("analyse", FolderArgvs, FolderDefaults, Directories)

\* defect.strip("/")
Strip(defect) == IF defect = "vac_1_Cd_0/" THEN "vac_1_Cd_0" ELSE defect

\* os.path.basename(os.path.normpath(path)) and os.path.dirname(path), of
\* the paths analyse comes to hold
Basename(path, dirs) == IF path = "cwd" THEN dirs.cwd ELSE path
Dirname(path) == IF path = "cwd" THEN "parent" ELSE "."

\* os.path.exists(f"{path}/{defect}") and os.path.exists(path): the folders
\* under the working directory and under "runs" are those listed, the parent
\* holds the working directory, and no path is made of None
Exists(path, defect, dirs) ==
    CASE path = NoneStr -> FALSE
      [] defect = "" -> TRUE
      [] path \in {".", "cwd"} -> defect \in Names(dirs.listing["."])
      [] path = "runs" -> defect \in Names(dirs.listing["runs"])
      [] path = "parent" -> defect = dirs.cwd
      [] OTHER -> FALSE

\* analyse_single_defect: the call that analysed the defect, or none when
\* FileNotFoundError is raised (no folder name holds a "+" to try without)
analyse_single_defect(defect, path, dirs) ==
    IF Exists(path, defect, dirs)
    THEN <<Call("analyse_single_defect", defect, path)>>
    ELSE <<>>

\* analyse: the calls of analyse_single_defect that analysed a defect, and
\* the exception the command ends with, if any. After `for defect in
\* defect_dirs` the code goes on to `defect.strip("/")` with the loop
\* variable: the last folder, or None when there was none
analyse(defect, path, dirs) ==
    LET in_dir == defect = NoneStr /\ _running_in_defect_dir(dirs) /\ path = "."
        defect1 == IF in_dir THEN dirs.cwd ELSE defect
        path1 == IF in_dir THEN "parent" ELSE path
        defect_dirs == IF defect1 = NoneStr THEN _parse_defect_dirs(path1, dirs) ELSE <<>>
        loop == [i \in DOMAIN defect_dirs |->
                    Call("analyse_single_defect", defect_dirs[i], path1)]
        after == IF defect1 = NoneStr /\ defect_dirs # <<>>
                 THEN defect_dirs[Len(defect_dirs)]
                 ELSE defect1
    IN  IF after = NoneStr THEN [calls |-> loop, error |-> "AttributeError"]
        ELSE LET defect2 == Strip(after)
                 path2 == IF path1 = "." THEN "cwd" ELSE path1
                 at_end == defect2 = Basename(path2, dirs)
                 orig_path == IF at_end THEN path2 ELSE NoneStr
                 path3 == IF at_end THEN Dirname(path2) ELSE path2
                 first == analyse_single_defect(defect2, path3, dirs)
                 second == analyse_single_defect(defect2, orig_path, dirs)
             IN  IF first # <<>> THEN [calls |-> loop \o first, error |-> NoneStr]
                 ELSE IF second # <<>> THEN [calls |-> loop \o second, error |-> NoneStr]
                 ELSE [calls |-> loop, error |-> "Exception"]

\* the whole command; _running_in_defect_dir is called, and may warn, only
\* when defect is None
Analyse ==
    /\ cmd = "analyse" /\ pc = "invoke"
    /\ LET result == analyse(params.defect, params.path, fs)
       IN  /\ calls' = result.calls
           /\ error' = result.error
           /\ pc' = IF result.error = NoneStr THEN "done" ELSE "failed"
    /\ warnings' = IF params.defect = NoneStr
                   THEN warnings \o RunningInDefectDirWarnings(fs)
                   ELSE warnings
    /\ UNCHANGED <<cmd, cli_params, source, config_file, params, user_settings,
                   defect_settings, defect_object, defect_entries, events,
                   processed, bulk_oxi_set, regen, rattle, fs, exit_status>>

NextAnalyse == Analyse

(* plot. The name of a defect folder is the sequence of its parts between   *)
(* underscores, <<"vac", "1", "Cd", "-1">> for vac_1_Cd_-1, so that          *)
(* rsplit("_", 1) and int() are computed as Python computes them; a --defect *)
(* that is not given is the empty sequence.                                  *)

NoName == <<>>

\* the folders that hold distortion folders: the charge states of two
\* defects, a copy of one under another name, and a name with no underscore
PlotNames ==
    { <<"vac", "1", "Cd", "0">>, <<"vac", "1", "Cd", "-1">>, <<"Int", "Cd", "2", "+1">>,
      <<"vac", "1", "Cd", "0", "old">>, <<"backup">> }

PlotListings ==
    { [i \in DOMAIN l |-> DefectFolder(l[i])] :
        l \in { m \in UNION { [1..n -> PlotNames] : n \in 0..MaxDefectDirs } :
                  \A i, j \in DOMAIN m : i # j => m[i] # m[j] } }

\* as Directories; "runs" holds one defect folder at most
PlotDirectories ==
    { [cwd |-> c, distortions |-> d, named |-> n,
       listing |-> [p \in {".", "runs"} |-> IF p = "." THEN l ELSE r]] :
        c \in {<<"defects">>, <<"vac", "1", "Cd", "0">>}, d \in BOOLEAN, n \in BOOLEAN,
        l \in PlotListings, r \in { x \in PlotListings : Len(x) <= 1 } }

PlotDefaults == [defect |-> NoName, path |-> ".", code |-> "vasp", verbose |-> FALSE]

PlotArgvs ==
    { Restrict([defect |-> d, path |-> "runs", verbose |-> TRUE],
               (IF d # NoName THEN {"defect"} ELSE {})
               \cup (IF p THEN {"path"} ELSE {}) \cup (IF v THEN {"verbose"} ELSE {})) :
        d \in {NoName, <<"vac", "1", "Cd", "0">>, <<"vac", "1", "Cd", "0/">>},
        p \in BOOLEAN, v \in BOOLEAN }

InitPlot == InitTool("plot", PlotArgvs, PlotDefaults, PlotDirectories)

\* defect.rsplit("_", 1), were the name split at its first underscore
rsplit_First(name) ==
    IF Len(name) = 1 THEN <<name>> ELSE <<SubSeq(name, 1, 1), name[Len(name)]>>

\* defect.rsplit("_", 1): the name up to its last underscore and the part
\* after it, or the name alone when it has no underscore
rsplit(name) ==
    IF Len(name) = 1 THEN <<name>> ELSE <<SubSeq(name, 1, Len(name) - 1), name[Len(name)]>>

\* int(s): None stands for the ValueError of a string that is no integer
IntOf(s) ==
    CASE s = "0" -> 0
      [] s = "-1" -> 0 - 1
      [] s = "+1" -> 1
      [] s = "1" -> 1
      [] s = "2" -> 2
      [] OTHER -> None

\* defect.strip("/") of a folder name
StripName(name) ==
    IF name # <<>> /\ name[Len(name)] = "0/"
    THEN [name EXCEPT ![Len(name)] = "0"] ELSE name

\* the folder `defect` is found under `path`
PlotExists(path, defect, dirs) ==
    CASE path = NoneStr -> FALSE
      [] path \in {".", "cwd"} -> defect \in Names(dirs.listing["."])
      [] path = "runs" -> defect \in Names(dirs.listing["runs"])
      [] path = "parent" -> defect = dirs.cwd
      [] OTHER -> FALSE

PlotAll(defects_dict, path) ==
    [fn |-> "plot_all_defects", defect_charges_dict |-> defects_dict, output_path |-> path]

\* cli.py 1155-1158: the dict of the names without charge, then the charges
\* appended folder by folder; the first folder that cannot be split or whose
\* last part is no integer raises
RECURSIVE Charges_of(_, _)
Charges_of(defect_dirs, base) ==
    IF defect_dirs = <<>> THEN <<>>
    ELSE LET parts == rsplit(Head(defect_dirs))
         IN  (IF parts[1] = base THEN <<IntOf(parts[2])>> ELSE <<>>)
                 \o Charges_of(Tail(defect_dirs), base)

DefectsDict(defect_dirs) ==
    LET bad == { i \in DOMAIN defect_dirs :
                    \/ Len(rsplit(defect_dirs[i])) = 1
                    \/ IntOf(rsplit(defect_dirs[i])[2]) = None }
        first == CHOOSE i \in bad : \A j \in bad : i <= j
    IN  IF bad # {}
        THEN [error |-> IF Len(rsplit(defect_dirs[first])) = 1
                        THEN "IndexError" ELSE "ValueError",
              dict |-> <<>>]
        ELSE [error |-> NoneStr,
              dict |-> [base \in { rsplit(defect_dirs[i])[1] : i \in DOMAIN defect_dirs } |->
                           Charges_of(defect_dirs, base)]]

\* plot: the calls that parsed and plotted, and the exception the command
\* ends with, if any
plot(defect, path, dirs) ==
    LET in_dir == defect = NoName /\ _running_in_defect_dir(dirs) /\ path = "."
        defect1 == IF in_dir THEN dirs.cwd ELSE defect
        path1 == IF in_dir THEN "parent" ELSE path
    IN  IF defect1 = NoName
        THEN LET defect_dirs == _parse_defect_dirs(path1, dirs)
                 parsed == [i \in DOMAIN defect_dirs |->
                               Call("parse_energies", defect_dirs[i], path1)]
                 defects_dict == DefectsDict(defect_dirs)
             IN  IF defects_dict.error # NoneStr
                 THEN [calls |-> parsed, error |-> defects_dict.error]
                 ELSE [calls |-> Append(parsed, PlotAll(defects_dict.dict, path1)),
                       error |-> NoneStr]
        ELSE LET defect2 == StripName(defect1)
                 path2 == IF path1 = "." THEN "cwd" ELSE path1
                 at_end == path2 = "cwd" /\ defect2 = dirs.cwd
                 orig_path == IF at_end THEN path2 ELSE NoneStr
                 path3 == IF at_end THEN Dirname(path2) ELSE path2
                 Single(p) == <<Call("parse_energies", defect2, p),
                                Call("plot_defect", defect2, p)>>
             IN  IF PlotExists(path3, defect2, dirs)
                 THEN [calls |-> Single(path3), error |-> NoneStr]
                 ELSE IF PlotExists(orig_path, defect2, dirs)
                 THEN [calls |-> Single(orig_path), error |-> NoneStr]
                 ELSE [calls |-> <<>>, error |-> "Exception"]

\* the whole command
Plot ==
    /\ cmd = "plot" /\ pc = "invoke"
    /\ LET result == plot(params.defect, params.path, fs)
       IN  /\ calls' = result.calls
           /\ error' = result.error
           /\ pc' = IF result.error = NoneStr THEN "done" ELSE "failed"
    /\ warnings' = IF params.defect = NoName
                   THEN warnings \o RunningInDefectDirWarnings(fs)
                   ELSE warnings
    /\ UNCHANGED <<cmd, cli_params, source, config_file, params, user_settings,
                   defect_settings, defect_object, defect_entries, events,
                   processed, bulk_oxi_set, regen, rattle, fs, exit_status>>

NextPlot == Plot

-----------------------------------------------------------------------------
(* The specifications *)

\* generate, over the ways to give charges
SpecGenerate == InitGenerate /\ [][Invoke \/ NextGenerate]_vars

\* generate_all, over the `defects` sections of the config file
SpecGenerateAll == InitGenerateAll /\ [][Invoke \/ NextGenerateAll]_vars

\* regenerate, over the energies found in the defect folders
SpecRegenerate == InitRegenerate /\ [][NextRegenerate]_vars

\* regenerate, over the geometries the distortions of three charge states
\* relax to
SpecConsolidate == InitConsolidate /\ [][NextRegenerate]_vars

\* rattle, every enabled step of which is taken in the end
SpecRattle == InitRattle /\ [][NextRattle]_vars /\ WF_vars(NextRattle)

\* mag, over the OUTCAR files and the thresholds
SpecMag == InitMag /\ [][NextMag]_vars

\* parse, over the folders and the options given
SpecParse == InitParse /\ [][NextParse]_vars

\* analyse, over the same
SpecAnalyse == InitAnalyse /\ [][NextAnalyse]_vars

\* parse from a top-level directory, over the entries of the directory
SpecParseTrees == InitParseTrees /\ [][NextParse]_vars

\* plot, over the names of the folders
SpecPlot == InitPlot /\ [][NextPlot]_vars

\* both commands, over the values of --code: the names of the codes as the
\* help text writes them, in lower case and in other spellings, and names
\* of no code; the config file may give the code as well
Codes ==
    {"VASP", "vasp", "Vasp", "CP2K", "cp2k", "Espresso", "espresso",
     "Quantum_Espresso", "quantum_espresso", "Quantum-Espresso", "QuantumEspresso",
     "CASTEP", "Castep", "FHI-aims", "fhi-aims", "FHI_aims", "FHIaims",
     "ABINIT", "vasp6", "esp", ""}

WithCode(argvs) ==
    { IF c = NoneStr THEN a ELSE a @@ ("code" :> c) : a \in argvs, c \in Codes \cup {NoneStr} }

CodeConfigs == { EmptyDict, [code |-> "cp2k"], [code |-> "QuantumEspresso"] }

InitCodes ==
    \/ InitCommand("generate", WithCode(GenerateArgvsOver({0}, {})),
                   GenerateDefaults, CodeConfigs)
    \/ InitCommand("generate_all",
                   WithCode({ a \in GenerateAllArgvs : "padding" \notin DOMAIN a }),
                   GenerateAllDefaults, CodeConfigs)

\* both commands, over the keys of the config file and the options given
InitOptions ==
    \/ InitCommand("generate", GenerateArgvsOver({0}, PaddingVals),
                   GenerateDefaults, GenerateConfigsOver(GenerateConfigKeys))
    \/ InitCommand("generate_all", GenerateAllArgvs, GenerateAllDefaults,
                   GenerateAllConfigsOver(GenerateAllConfigKeys,
                       {EmptyDict, [n \in {"vac_1_Cd"} |-> [charge |-> 1]]}))

Init == InitOptions
Next == Invoke \/ NextGenerate \/ NextGenerateAll
Spec == Init /\ [][Next]_vars

\* both commands, over the values of --code
SpecCodes == InitCodes /\ [][Next]_vars

-----------------------------------------------------------------------------
(* Properties *)

Called(call) == call \in Elems(events)

Writers ==
    {"write_vasp_files", "write_cp2k_files", "write_espresso_files",
     "write_castep_files", "write_fhi_aims_files"}

\* no distortion was generated and nothing was written
NothingGenerated ==
    /\ ~Called("Distortions")
    /\ \A w \in Writers : ~Called(w)
    /\ ~Called("dumpfn")

WarnedAbout(about) == \E i \in DOMAIN warnings : warnings[i].about = about

Defaults == IF cmd = "generate" THEN GenerateDefaults ELSE GenerateAllDefaults

ConfigGiven == cli_params["config"] # NoneStr

\* C1: once invoke has run, every option holds its command-line value if it
\* was given on the command line, else the config file's value if the config
\* file has a key of its name, else its default
C1_OptionPrecedence ==
    pc # "invoke" =>
        \A p \in DOMAIN params :
            params[p] = IF source[p] = "COMMANDLINE" THEN cli_params[p]
                        ELSE IF ConfigGiven /\ p \in DOMAIN config_file
                        THEN config_file[p]
                        ELSE Defaults[p]

\* a finished run in which the config file names an option given on the
\* command line with another value, and an option left at its default
C1_Witness ==
    /\ pc = "done"
    /\ \E p \in DOMAIN params :
          /\ source[p] = "COMMANDLINE" /\ p \in DOMAIN config_file
          /\ config_file[p] # cli_params[p]
    /\ \E q \in DOMAIN params :
          /\ source[q] = "DEFAULT" /\ q \in DOMAIN config_file
          /\ params[q] # Defaults[q]

AfterCharges ==
    cmd = "generate" /\ pc \in {"entries", "distortions", "write", "dump", "done"}

AfterEntries ==
    cmd = "generate" /\ pc \in {"distortions", "write", "dump", "done"}

Ascending(list) == \A i \in 1..(Len(list) - 1) : list[i] < list[i + 1]

\* C2: without --charge and with both limits, the user charges are the
\* integers between the smaller and the larger limit, in ascending order,
\* whichever of the two options holds which
C2_ChargeRange ==
    (/\ AfterCharges
     /\ params["charge"] = None
     /\ params["min_charge"] # None /\ params["max_charge"] # None)
    => LET a == params["min_charge"]
           b == params["max_charge"]
           swapped == [params EXCEPT !["min_charge"] = b, !["max_charge"] = a]
       IN  /\ Elems(defect_object.user_charges) = Min2(a, b)..Max2(a, b)
           /\ Ascending(defect_object.user_charges)
           /\ defect_object.user_charges = CliCharges(swapped, <<>>).user_charges

\* the limits given the wrong way round, MaxCharge down to -MaxCharge
C2_Witness ==
    /\ AfterCharges
    /\ params["charge"] = None
    /\ params["min_charge"] = MaxCharge /\ params["max_charge"] = 0 - MaxCharge
    /\ Len(defect_object.user_charges) = 2 * MaxCharge + 1

ExactlyOneLimit ==
    /\ cmd = "generate" /\ pc # "invoke"
    /\ (params["min_charge"] = None) # (params["max_charge"] = None)

BeforeEntries == pc \in {"settings", "identify", "charges", "failed"}

\* C3 as claimed: with exactly one of the limits, whatever the other
\* options, the command fails before Distortions is constructed and before
\* anything is written
C3_LoneLimitAlwaysFails ==
    ExactlyOneLimit => BeforeEntries /\ NothingGenerated

\* C3: without --charge and with exactly one of the limits, the command
\* fails before Distortions is constructed and before anything is written
C3_LoneLimitFailsWithoutCharge ==
    (ExactlyOneLimit /\ params["charge"] = None) =>
        /\ BeforeEntries /\ NothingGenerated
        /\ pc = "failed" => error # NoneStr

C3_Witness ==
    /\ ExactlyOneLimit /\ params["charge"] = None
    /\ pc = "failed" /\ error = "ValueError"

\* charges given by a charge option of the command line and by `charges` in
\* the config file
ChargeConflict ==
    /\ cmd = "generate" /\ pc # "invoke"
    /\ \/ source["charge"] = "COMMANDLINE"
       \/ source["min_charge"] = "COMMANDLINE" /\ source["max_charge"] = "COMMANDLINE"
    /\ ConfigGiven /\ "charges" \in DOMAIN config_file

\* C4 as claimed: charges given both ways abort the command before any
\* distortion is generated or written
C4_ConflictAborts == ChargeConflict => NothingGenerated

\* C4: charges given both ways raise a warning and no error: the config's
\* `charges` are dropped, the user charges are those of the charge options
\* and the command goes on
C4_ConflictWarns ==
    /\ ChargeConflict => error \in {NoneStr, "identify_defect"}
    /\ (ChargeConflict /\ AfterCharges) =>
          /\ WarnedAbout("charges")
          /\ "charges" \notin DOMAIN user_settings
          /\ defect_object.user_charges =
                IF params["charge"] # None THEN <<params["charge"]>>
                ELSE SortedList(Min2(params["min_charge"], params["max_charge"])
                                ..Max2(params["min_charge"], params["max_charge"]))

C4_Witness ==
    /\ ChargeConflict /\ pc = "done"
    /\ Called("Distortions") /\ Called("write_vasp_files")
    /\ Truthy(config_file["charges"])
    /\ config_file["charges"] # defect_object.user_charges

EntryCharges == {defect_entries[i].charge : i \in DOMAIN defect_entries}

NoChargeOption ==
    /\ params["charge"] = None
    /\ params["min_charge"] = None /\ params["max_charge"] = None

\* C5: with --charge c the DefectEntries are made for c alone; with no charge
\* option and a non-empty `charges` list in the config file they are made for
\* the charges of that list and no other; neither depends on --padding,
\* --min-charge or --max-charge
C5_ExplicitCharges ==
    AfterEntries =>
        /\ params["charge"] # None => EntryCharges = {params["charge"]}
        /\ (/\ NoChargeOption /\ ConfigGiven
            /\ "charges" \in DOMAIN config_file /\ Truthy(config_file["charges"]))
           => EntryCharges = Elems(config_file["charges"])

\* the charges of the config file, where the oxidation state with the
\* padding would have given others
C5_Witness ==
    /\ AfterEntries /\ pc = "done" /\ NoChargeOption
    /\ ConfigGiven /\ "charges" \in DOMAIN config_file
    /\ EntryCharges = {0 - 1, 1}
    /\ source["padding"] = "COMMANDLINE"
    /\ defect_object.oxi_state = 0 - MaxOxi

ValidArgs == IF cmd = "generate" THEN GenerateValidArgs ELSE GenerateAllValidArgs

\* the keys of the config file that no option, setting or keyword answers to
UnknownKeys ==
    IF ConfigGiven
    THEN {k \in DOMAIN config_file : k \notin ValidArgs \cup PotcarKeys}
    ELSE {}

AfterSettings == pc \notin {"invoke", "settings"}

\* C7 as claimed: every unrecognised key is removed from the settings, with a
\* warning for each
C7_UnknownKeysWarned ==
    AfterSettings =>
        \A k \in UnknownKeys : k \notin DOMAIN user_settings /\ WarnedAbout(k)

\* C7: every unrecognised key is removed from the settings handed to
\* Distortions, without a warning, and the filtering raises nothing
C7_UnknownKeysDropped ==
    /\ AfterSettings =>
          \A k \in UnknownKeys : k \notin DOMAIN user_settings /\ ~WarnedAbout(k)
    /\ pc \in {"identify", "loop"} => error = NoneStr

C7_Witness ==
    /\ pc = "done" /\ Called("Distortions")
    /\ UnknownKeys = {"foo", "bar"}
    /\ DOMAIN user_settings = {}

\* the config file gives `charges` or `charge` for the directory entry, under
\* its own name or under the name identify_defect gives it
ConfigGivesCharges(defect) ==
    \E n \in {defect, ObjName} \cap DOMAIN defect_settings :
        "charges" \in DOMAIN defect_settings[n] \/ "charge" \in DOMAIN defect_settings[n]

\* C6 as claimed: a defect the config file gives no charges for has no user
\* charges, and its charge states are the range 0..oxidation state widened
\* by the padding
C6_NoChargesMeansPadding ==
    \A i \in DOMAIN processed :
        (processed[i].status = "entries" /\ ~ConfigGivesCharges(processed[i].defect))
        => /\ processed[i].user_charges = <<>>
           /\ processed[i].charge_states =
                 RangeList(Min2(0, processed[i].oxi_state) - params["padding"],
                           Max2(0, processed[i].oxi_state) + params["padding"])

\* C8 as claimed: identify_defect is called with the defect_index of the
\* config file (0 included) and no coordinates, else with the defect_coords
\* of the config file and no index, else with neither
C8_PositionFromConfig ==
    \A i \in DOMAIN processed :
        processed[i].called =>
            LET defect == processed[i].defect
                named  == defect \in DOMAIN defect_settings
            IN  IF named /\ "defect_index" \in DOMAIN defect_settings[defect]
                THEN /\ processed[i].defect_index = defect_settings[defect]["defect_index"]
                     /\ processed[i].defect_coords = NoneStr
                ELSE IF named /\ "defect_coords" \in DOMAIN defect_settings[defect]
                THEN /\ processed[i].defect_index = None
                     /\ processed[i].defect_coords = defect_settings[defect]["defect_coords"]
                ELSE /\ processed[i].defect_index = None
                     /\ processed[i].defect_coords = NoneStr

\* C9 as claimed: when the command ends, every defect whose structure was
\* parsed and identified has its DefectEntries and its input files, whatever
\* happened to the others
C9_FatalScopedToDefect ==
    (cmd = "generate_all" /\ pc \in {"done", "failed"}) =>
        \A i \in DOMAIN processed :
            processed[i].status = "entries" =>
                /\ \E j \in DOMAIN defect_entries :
                      defect_entries[j].defect = processed[i].defect
                /\ Called("Distortions")
                /\ \E w \in Writers : Called(w)

\* the energy of the lowest-energy distortion of charge state c is below its
\* Unperturbed energy by more than m
LowersEnergy(c, m) ==
    \E d \in DistortionLabels :
        /\ \A other \in DistortionLabels : regen.tree[c][d] <= regen.tree[c][other]
        /\ regen.tree[c][d] < regen.tree[c]["Unperturbed"] - m

FlaggedCharge(c) == \E f \in regen.flagged : f.charge = c

PropagatedFrom(c) ==
    \E to \in DOMAIN regen.trials : \E t \in regen.trials[to] : t.from = c

Charges == DOMAIN regen.trials

Propagated(t) == t.from # None

\* C11: at every step of the consolidation, a propagated trial of a charge
\* state is equivalent to no other trial of that charge state, propagated or
\* its own; a proposal equivalent to one is recorded as a duplicate, not
\* written
C11_OnePropagatedTrialPerGeometry ==
    cmd = "regenerate" =>
        /\ \A c \in Charges : \A t1, t2 \in regen.trials[c] :
              (Propagated(t1) /\ t1 # t2) => t1.geometry # t2.geometry
        /\ \A p \in regen.duplicates :
              /\ Trial(p.distortion, p.from, p.geometry) \notin regen.trials[p.to]
              /\ \E t \in regen.trials[p.to] : t.geometry = p.geometry

\* the consolidation is over; two charge states had flagged distortions of
\* one geometry, new to a third charge state, which holds one propagated
\* trial of it, the other proposal being a duplicate
C11_Witness ==
    /\ cmd = "regenerate" /\ pc = "done"
    /\ \E f1, f2 \in regen.flagged : \E to \in Charges :
          /\ f1.charge # f2.charge /\ to \notin {f1.charge, f2.charge}
          /\ GeometryOf(regen.trials, f1.charge, f1.distortion)
                = GeometryOf(regen.trials, f2.charge, f2.distortion)
          /\ \E t \in regen.trials[to] :
                /\ t.from = f1.charge
                /\ t.geometry = GeometryOf(regen.trials, f1.charge, f1.distortion)
          /\ \E p \in regen.duplicates : p.from = f2.charge /\ p.to = to

Rank(phase) == CHOOSE i \in DOMAIN Phases : Phases[i] = phase

AllScanned == Len(regen.scanned) = Cardinality(regen.defect_charges_dict)

\* C12: the consolidation of a defect enters the phases Scanned,
\* EnergyLoweringFound, Propagated, Deduplicated one after the other, never
\* going back or skipping one, and nothing is proposed or written before all
\* charge states are scanned and an energy-lowering distortion is found
C12_PhaseOrder ==
    /\ [][cmd = "regenerate" =>
            Rank(regen'.phase) \in {Rank(regen.phase), Rank(regen.phase) + 1}]_vars
    /\ [](cmd = "regenerate" =>
            /\ (regen.proposals # <<>> \/ \E c \in Charges : \E t \in regen.trials[c] :
                                                               Propagated(t))
               => (AllScanned /\ Rank(regen.phase) >= Rank("Propagated"))
            /\ Rank(regen.phase) >= Rank("Scanned") => AllScanned
            /\ Rank(regen.phase) >= Rank("EnergyLoweringFound") => regen.flagged # {})

\* the consolidation went through all four phases and wrote a trial
C12_Witness ==
    /\ cmd = "regenerate" /\ pc = "done"
    /\ regen.phase = "Deduplicated"
    /\ \E c \in Charges : \E t \in regen.trials[c] : Propagated(t)

\* C13: no step of the consolidation changes the energy records or removes
\* or changes a trial of any charge state; a trial it adds comes from
\* another charge state than the one it is added to
C13_OnlyAddsToOtherCharges ==
    [][cmd = "regenerate" =>
          /\ regen'.tree = regen.tree
          /\ DOMAIN regen'.trials = Charges
          /\ \A c \in Charges :
                /\ regen.trials[c] \subseteq regen'.trials[c]
                /\ \A t \in regen'.trials[c] \ regen.trials[c] :
                      Propagated(t) /\ t.from # c /\ t.from \in Charges]_vars

\* a charge state holds a propagated trial of a distortion beside its own
\* trial of that distortion
C13_Witness ==
    /\ cmd = "regenerate" /\ pc = "done"
    /\ \E c \in Charges : \E t, own \in regen.trials[c] :
          /\ Propagated(t) /\ ~Propagated(own)
          /\ own.distortion = t.distortion

\* C14: a charge state without energy records is never flagged, nothing is
\* proposed or written from it, and the consolidation raises nothing and
\* goes on to its end, where the other charge states are flagged as their
\* energies say
C14_MissingEnergiesSkipped ==
    (cmd = "regenerate" /\ pc # "read") =>
        /\ \A c \in Charges : regen.tree[c] = NoEnergies =>
              /\ ~FlaggedCharge(c) /\ ~PropagatedFrom(c)
              /\ \A i \in DOMAIN regen.proposals : regen.proposals[i].from # c
        /\ error = NoneStr \/ regen.defect_charges_dict = {}
        /\ pc \notin {"done", "failed"} => ENABLED NextRegenerate
        /\ pc = "done" =>
              /\ AllScanned
              /\ \A c \in Charges : regen.tree[c] # NoEnergies =>
                    (FlaggedCharge(c) <=> LowersEnergy(c, regen.args.min_e_diff))

\* the consolidation is over; one charge state has no energy records, and a
\* distortion of another was written to it
C14_Witness ==
    /\ cmd = "regenerate" /\ pc = "done"
    /\ \E c \in Charges :
          /\ regen.tree[c] = NoEnergies
          /\ \E t \in regen.trials[c] : Propagated(t)

Count(call) == Cardinality({i \in DOMAIN events : events[i] = call})

\* C19: with no defect folder under the path regenerate raises
\* FileNotFoundError without calling get_energy_lowering_distortions or
\* writing anything; with one or more it calls it once, with
\* write_input_files=True and the --min_energy and --metastable it was given
C19_RegenerateCall ==
    (cmd = "regenerate" /\ pc # "read") =>
        IF DOMAIN regen.tree = {}
        THEN /\ pc = "failed" /\ error = "FileNotFoundError"
             /\ events = <<>>
             /\ regen.args = EmptyDict
        ELSE /\ error = NoneStr
             /\ pc # "consolidate" =>
                   /\ Count("get_energy_lowering_distortions") = 1
                   /\ regen.args.write_input_files
                   /\ regen.args.min_e_diff = cli_params["min_energy"]
                   /\ regen.args.metastable = cli_params["metastable"]
                   /\ regen.args.defect_charges_dict = DOMAIN regen.tree

\* regenerate has run to its end with --min_energy and --metastable given and
\* has written a trial
C19_Witness ==
    /\ cmd = "regenerate" /\ pc = "done"
    /\ source["min_energy"] = "COMMANDLINE" /\ source["metastable"] = "COMMANDLINE"
    /\ regen.args.min_e_diff = 3 /\ regen.args.metastable
    /\ Count("write_input_files") > 0

\* C15: no atom is drawn for more than max_attempts times DecayRounds times,
\* an atom is left at its original position only once all of these draws
\* were rejected, and every rattle comes to its end
C15_RattleTerminates ==
    /\ [](cmd = "rattle" =>
            /\ \A a \in Atoms : rattle.draws[a] <= rattle.max_attempts * DecayRounds
            /\ \A a \in rattle.left :
                  /\ rattle.draws[a] = rattle.max_attempts * DecayRounds
                  /\ a \notin rattle.displaced)
    /\ <>(pc = "done")

\* the rattle is over; one atom used up all its draws and was left where it
\* was, another was displaced after a rejected draw
C15_Witness ==
    /\ cmd = "rattle" /\ pc = "done"
    /\ rattle.max_attempts = MaxAttempts
    /\ \E a \in rattle.left : rattle.draws[a] = MaxAttempts * DecayRounds
    /\ \E a \in rattle.displaced : rattle.draws[a] > 1

\* the atoms of the OUTCAR, one by one: <<run, atom of the run>>
MagAtoms ==
    UNION { { <<i, k>> : k \in 1..fs.magnetization[i].atoms } :
            i \in DOMAIN fs.magnetization }

\* the total of the absolute moments over the atoms
RECURSIVE Total(_)
Total(atoms) ==
    IF atoms = {} THEN 0
    ELSE LET a == CHOOSE x \in atoms : TRUE
         IN  Abs(fs.magnetization[a[1]].tot) + Total(atoms \ {a})

BelowThreshold ==
    /\ fs.readable
    /\ MagAtoms # {}
    /\ \A a \in MagAtoms : Abs(fs.magnetization[a[1]].tot) < params.threshold
    /\ Total(MagAtoms) < 10 * params.threshold

C20_DumpedAfterWrite ==
    (cmd \in {"generate", "generate_all"} /\ pc = "done" /\ \E w \in Writers : Called(w))
        => Called("dumpfn")

\* the calls made for the defect folder d
CallsFor(d) == { i \in DOMAIN calls : calls[i].defect = d }

\* energies were parsed for `defect` under `path`, and for nothing else
ParsedOnly(defect, path) == calls = <<Call("parse_energies", defect, path)>>

\* energies were parsed once for each directory of _parse_defect_dirs(path),
\* under path, and for nothing else
ParsedEach ==
    /\ \A i \in DOMAIN calls : calls[i].fn = "parse_energies" /\ calls[i].path = params.path
    /\ \A d \in DefectNames \cup {fs.cwd, ""} :
          Cardinality(CallsFor(d)) =
              IF d \in Elems(_parse_defect_dirs(params.path, fs)) THEN 1 ELSE 0

\* C18, as stated: parse is in exactly one of three modes: --defect given,
\* that defect alone is parsed under the path given; else, in a defect folder
\* with path ".", the working directory alone, under its parent; else each
\* directory of _parse_defect_dirs(path), once
C18_ThreeModes ==
    (cmd = "parse" /\ pc = "done") =>
        IF source["defect"] = "COMMANDLINE"
        THEN ParsedOnly(params.defect, params.path)
        ELSE IF fs.distortions /\ params.path = "."
        THEN ParsedOnly(fs.cwd, "parent")
        ELSE ParsedEach

\* C18, amended: the first mode is taken when --defect is given and is not
\* the empty string; an empty --defect is treated as none
C18_ThreeModesNonEmpty ==
    (cmd = "parse" /\ pc = "done") =>
        IF source["defect"] = "COMMANDLINE" /\ params.defect # ""
        THEN ParsedOnly(params.defect, params.path)
        ELSE IF fs.distortions /\ params.path = "."
        THEN ParsedOnly(fs.cwd, "parent")
        ELSE ParsedEach

\* parse has run with an empty --defect from a top-level directory and has
\* parsed the two defect folders under it
C18_Witness ==
    /\ cmd = "parse" /\ pc = "done"
    /\ source["defect"] = "COMMANDLINE" /\ params.defect = ""
    /\ ~fs.distortions
    /\ Len(calls) = MaxDefectDirs
    /\ calls[1].defect # calls[2].defect

\* C17: when analyse has run without --defect from a directory that is not a
\* defect folder, each directory of _parse_defect_dirs(path) was analysed
\* exactly once and no other directory was; with no defect folder, nothing
\* was analysed
C17_EachAnalysedOnce ==
    (cmd = "analyse" /\ pc \in {"done", "failed"}
         /\ source["defect"] = "DEFAULT" /\ ~fs.distortions) =>
        \A d \in DefectNames \cup {fs.cwd, ""} :
            Cardinality(CallsFor(d)) =
                IF d \in Elems(_parse_defect_dirs(params.path, fs)) THEN 1 ELSE 0

\* C21 as claimed: generate_all goes on when the bulk oxidation states could
\* not be guessed, and identify_defect is called with oxi_state =
\* "Undetermined" for every defect then, with oxi_state = None when they
\* could
C21_UndeterminedWhenGuessFails ==
    (cmd = "generate_all" /\ pc \notin {"invoke", "settings"}) =>
        /\ error # "UnboundLocalError"
        /\ \A i \in DOMAIN processed :
              processed[i].called =>
                  processed[i].oxi_arg =
                      IF bulk_oxi_set THEN NoneStr ELSE "Undetermined"

\* the name starts with "Rattled", "Unperturbed", "Bond_Distortion" or "Dimer"
StartsWithDistortion(n) ==
    \E p \in {RattledName, UnperturbedName, DimerName,
               SubSeq(BondDistortionName, 1, Len(DistortionPrefixes[3]))} :
        /\ Len(p) <= Len(n)
        /\ \A k \in 1..Len(p) : n[k] = p[k]

\* C22: the directories parse loops over, those _parse_defect_dirs(path)
\* returns, are exactly the entries of path that are directories and hold an
\* entry whose name starts with Rattled, Unperturbed, Bond_Distortion or
\* Dimer, each once; plain files and directories without such an entry are
\* not among them
C22_DefectDirsOnly ==
    (cmd = "parse" /\ pc = "done" /\ params.defect = NoneStr /\ ~fs.distortions) =>
        LET entries == fs.listing[params.path]
        IN  /\ \A i \in DOMAIN entries :
                  Cardinality(CallsFor(entries[i].name)) =
                      IF /\ entries[i].isdir
                         /\ \E n \in entries[i].contents : StartsWithDistortion(n)
                      THEN 1 ELSE 0
            /\ \A i \in DOMAIN calls : calls[i].defect \in Names(entries)

\* parse has run over a directory that holds a folder with a Dimer entry,
\* which was parsed, and a folder whose one entry holds "Rattled" without
\* starting with it, which was not
C22_Witness ==
    /\ cmd = "parse" /\ pc = "done"
    /\ Len(calls) = 1
    /\ \E i, j \in DOMAIN fs.listing["."] :
          /\ fs.listing["."][i].isdir /\ fs.listing["."][i].contents = {DimerName}
          /\ calls[1].defect = fs.listing["."][i].name
          /\ fs.listing["."][j].isdir
          /\ \E n \in fs.listing["."][j].contents :
                Len(n) > Len(RattledName) /\ n[1] = "O"

\* the writer a value of --code names, whatever the case of its letters
Named(code) ==
    CASE code \in {"VASP", "vasp", "Vasp"} -> "write_vasp_files"
      [] code \in {"CP2K", "cp2k"} -> "write_cp2k_files"
      [] code \in {"Espresso", "espresso", "Quantum_Espresso", "quantum_espresso",
                   "Quantum-Espresso", "QuantumEspresso"} -> "write_espresso_files"
      [] code \in {"CASTEP", "Castep"} -> "write_castep_files"
      [] code \in {"FHI-aims", "fhi-aims", "FHI_aims", "FHIaims"} -> "write_fhi_aims_files"
      [] OTHER -> NoneStr

\* C23: generate and generate_all never call more than one writer, nor one
\* twice; once they have run to their end the writer that --code names, in
\* any case of its letters, was called once and no other, and for a code of
\* no such name none was called and nothing was raised
C23_OneWriter ==
    cmd \in {"generate", "generate_all"} =>
        /\ \A w \in Writers : Count(w) <= 1
        /\ \A w, v \in Writers : (Called(w) /\ Called(v)) => w = v
        /\ \A w \in Writers : Called(w) => w = Named(params["code"])
        /\ pc = "done" =>
              /\ \A w \in Writers : Called(w) <=> w = Named(params["code"])
              /\ error = NoneStr

\* generate_all has run to its end with --code QuantumEspresso and has called
\* the espresso writer
C23_Witness ==
    /\ cmd = "generate_all" /\ pc = "done"
    /\ source["code"] = "COMMANDLINE" /\ params["code"] = "QuantumEspresso"
    /\ Count("write_espresso_files") = 1

\* plot has ended after a run without --defect from a top-level directory
PlottedFromTopLevel ==
    /\ cmd = "plot" /\ pc \in {"done", "failed"}
    /\ source["defect"] = "DEFAULT" /\ ~fs.distortions

\* the name of a folder up to its last underscore, and the part after it
BaseName(name) == SubSeq(name, 1, Len(name) - 1)
Suffix(name) == name[Len(name)]

\* the name ends in an underscore followed by an integer
EndsInCharge(name) == Len(name) > 1 /\ Suffix(name) \in {"0", "-1", "+1", "1", "2"}

PlotAllCalls == { i \in DOMAIN calls : calls[i].fn = "plot_all_defects" }

\* plot_all_defects was called once, with a mapping whose keys are the folder
\* names without their last part and whose lists hold one charge for each
\* folder of that name, and plot_defect was not called
MappedByBaseName ==
    LET defect_dirs == _parse_defect_dirs(params.path, fs)
    IN  /\ Cardinality(PlotAllCalls) = 1
        /\ \A i \in DOMAIN calls : calls[i].fn # "plot_defect"
        /\ \A c \in PlotAllCalls :
              LET d == calls[c].defect_charges_dict
              IN  /\ DOMAIN d = { BaseName(defect_dirs[i]) : i \in DOMAIN defect_dirs }
                  /\ \A k \in DOMAIN d :
                        /\ Len(d[k]) = Cardinality({ i \in DOMAIN defect_dirs :
                                                       BaseName(defect_dirs[i]) = k })
                        /\ \A i \in DOMAIN defect_dirs :
                              BaseName(defect_dirs[i]) = k =>
                                  \E j \in DOMAIN d[k] :
                                      d[k][j] = IntOf(Suffix(defect_dirs[i]))
                        /\ \A j \in DOMAIN d[k] : d[k][j] # None

\* C24, as stated: after plot without --defect from a top-level directory,
\* plot_all_defects has been passed the mapping from the folder names without
\* the part after the last underscore to the integer charges of the folders
\* of that name, every folder of _parse_defect_dirs giving one charge to one
\* key, and the single-defect path was not run
C24_ChargesByBaseName ==
    PlottedFromTopLevel => (pc = "done" /\ MappedByBaseName)

\* C24, amended: the same, when the name of every folder of
\* _parse_defect_dirs ends in an underscore followed by an integer; when one
\* does not, the command raises and plots nothing
C24_ChargesByBaseNameOfChargedFolders ==
    PlottedFromTopLevel =>
        LET defect_dirs == _parse_defect_dirs(params.path, fs)
        IN  IF \A i \in DOMAIN defect_dirs : EndsInCharge(defect_dirs[i])
            THEN pc = "done" /\ MappedByBaseName
            ELSE /\ pc = "failed" /\ error \in {"ValueError", "IndexError"}
                 /\ \A i \in DOMAIN calls : calls[i].fn = "parse_energies"

\* plot has run from a top-level directory that holds two charge states of
\* one defect, and has passed both charges under the one key
C24_Witness ==
    /\ PlottedFromTopLevel /\ pc = "done"
    /\ Len(_parse_defect_dirs(params.path, fs)) = MaxDefectDirs
    /\ \E c \in PlotAllCalls :
          /\ DOMAIN calls[c].defect_charges_dict = { <<"vac", "1", "Cd">> }
          /\ Len(calls[c].defect_charges_dict[<<"vac", "1", "Cd">>]) = MaxDefectDirs

====
